---- MODULE Spec2Model ----
(***************************************************************************)
(* Model of the analysis engine of MCP_Codereview:                         *)
(*   src/src/core/analyzer.py   CodeAnalyzer (per-file analysis, scoring,  *)
(*                              suggestions, repository aggregation)       *)
(*   src/src/utils/helpers.py   is_binary_file, calculate_complexity,      *)
(*                              find_security_patterns                     *)
(*   src/src/utils/config.py    Config.is_file_excluded, MAX_FILE_SIZE     *)
(*                                                                         *)
(* Scores are integer valued in the code (100 minus integer penalties);    *)
(* the repository means are kept as exact fractions [num, den].            *)
(***************************************************************************)
EXTENDS Integers, Sequences, FiniteSets, Bags, TLC

VARIABLES
    repo,             \* the directory: file kinds in os.walk order (environment)
    repo_path,        \* the directory repo_path: where it is, whether it exists (environment)
    analyzers,        \* self.analyzers: keys of the external tools found at __init__
    pc,               \* position of analyze_repository
    all_files,        \* analyze_repository: all_files (indices into repo)
    analyzable_files, \* analyze_repository: analyzable_files
    idx,              \* loop position in analyzable_files (files consumed so far)
    file_results,     \* analyze_repository: file_results
    languages,        \* analyze_repository: languages histogram
    analysis,         \* the returned RepositoryAnalysis, NoAnalysis before return
    now,              \* the clock read by datetime.now()
    rerun,            \* a second, direct analyze_file call on an analyzed file
    probe,            \* inputs and outputs of the scoring functions called directly
    advice,           \* input and output of _generate_repository_suggestions
    config,           \* the scan toggles of the Config object (environment)
    review            \* the analysis as _analyze_repository of the tool layer leaves it

vars == <<repo, repo_path, analyzers, pc, all_files, analyzable_files, idx,
          file_results, languages, analysis, now, rerun, probe, advice, config, review>>

repoVars == <<repo, repo_path, analyzers, pc, all_files, analyzable_files, idx,
              file_results, languages, analysis, now, rerun, advice, config, review>>

----------------------------------------------------------------------------
(* Generic helpers *)

\* sum(s[lo..hi]), halving the range so that long files stay shallow
RECURSIVE SumRange(_, _, _)
SumRange(s, lo, hi) ==
    IF lo > hi THEN 0
    ELSE IF lo = hi THEN s[lo]
    ELSE LET mid == (lo + hi) \div 2
         IN  SumRange(s, lo, mid) + SumRange(s, mid + 1, hi)

SumSeq(s) == SumRange(s, 1, Len(s))

Min(a, b) == IF a < b THEN a ELSE b
Max(a, b) == IF a > b THEN a ELSE b

Rep(x, n) == [i \in 1..n |-> x]

SelectCategory(issues, c) == SelectSeq(issues, LAMBDA i : i.category = c)

RECURSIVE FlattenRange(_, _, _)
FlattenRange(ss, lo, hi) ==
    IF lo > hi THEN <<>>
    ELSE IF lo = hi THEN ss[lo]
    ELSE LET mid == (lo + hi) \div 2
         IN  FlattenRange(ss, lo, mid) \o FlattenRange(ss, mid + 1, hi)

Flatten(ss) == FlattenRange(ss, 1, Len(ss))

\* the concatenation of Op(1), ..., Op(n): a "for i, line in enumerate(lines, 1)" loop
PerLine(Op(_), n) == Flatten([i \in 1..n |-> Op(i)])

Count(s, P(_)) == Len(SelectSeq(s, P))

----------------------------------------------------------------------------
(* The files.  A file's content is content.split('\n'): a sequence of lines, *)
(* each line taken from LineTable.  LineTable records, for one line, the     *)
(* outcome of every primitive test the analyzers make on a single line (a    *)
(* re.search of one pattern, a substring test) and the counts they take.     *)
(* FileTable records what the operating system and the parsers report about  *)
(* the file: MIME guess, readability, size, ast.parse of the content, the    *)
(* output of the external tools.                                             *)

\* ---- catalogue of lines and files ----
LineTable ==
    \* L1: package main
    [ L1 |-> [feats |-> {},
            len |-> 12, indent |-> 0, names |-> 0, js_functions |-> 0, js_classes |-> 0, js_decisions |-> 0],
    \* L2: (empty line)
      L2 |-> [feats |-> {"blank"},
            len |-> 0, indent |-> 0, names |-> 0, js_functions |-> 0, js_classes |-> 0, js_decisions |-> 0],
    \* L3: func main() {
      L3 |-> [feats |-> {},
            len |-> 13, indent |-> 0, names |-> 0, js_functions |-> 0, js_classes |-> 0, js_decisions |-> 0],
    \* L4: }
      L4 |-> [feats |-> {},
            len |-> 1, indent |-> 0, names |-> 0, js_functions |-> 0, js_classes |-> 0, js_decisions |-> 0],
    \* L5: password = "secret123"
      L5 |-> [feats |-> {"in_password", "low_sensitive", "re_hardcoded_password", "text_credential_literal"},
            len |-> 22, indent |-> 0, names |-> 0, js_functions |-> 0, js_classes |-> 0, js_decisions |-> 0],
    \* L6: eval(x)
      L6 |-> [feats |-> {"re_eval"},
            len |-> 7, indent |-> 0, names |-> 0, js_functions |-> 0, js_classes |-> 0, js_decisions |-> 0],
    \* L7: def f(:
      L7 |-> [feats |-> {"text_def"},
            len |-> 7, indent |-> 0, names |-> 0, js_functions |-> 0, js_classes |-> 0, js_decisions |-> 0],
    \* L8:     if x
      L8 |-> [feats |-> {"starts_space", "text_decision"},
            len |-> 8, indent |-> 4, names |-> 0, js_functions |-> 0, js_classes |-> 0, js_decisions |-> 0],
    \* L9: def f(a, b, c, d, e, f, g, h):
      L9 |-> [feats |-> {"text_def"},
            len |-> 30, indent |-> 0, names |-> 0, js_functions |-> 0, js_classes |-> 0, js_decisions |-> 0],
    \* L10:     if a and b or c:
      L10 |-> [feats |-> {"starts_space", "text_decision"},
            len |-> 20, indent |-> 4, names |-> 0, js_functions |-> 0, js_classes |-> 0, js_decisions |-> 0],
    \* L11:         return [i for i in a if i]
      L11 |-> [feats |-> {"in_for", "in_for_sp", "starts_space", "text_decision"},
            len |-> 34, indent |-> 8, names |-> 0, js_functions |-> 0, js_classes |-> 0, js_decisions |-> 0],
    \* L12:     x = 1 + 1 + 1 + 1 + 1 + 1 + 1 + 1 + 1 + 1 + 1 + 1 + 1...
      L12 |-> [feats |-> {"starts_space"},
            len |-> 169, indent |-> 4, names |-> 0, js_functions |-> 0, js_classes |-> 0, js_decisions |-> 0],
    \* L13: for x in xs: s += x
      L13 |-> [feats |-> {"in_for", "in_for_sp", "in_pluseq", "text_decision"},
            len |-> 19, indent |-> 0, names |-> 0, js_functions |-> 0, js_classes |-> 0, js_decisions |-> 0],
    \* L14: for y in ys: out.append(y)
      L14 |-> [feats |-> {"in_for", "in_for_sp", "re_append_loop", "text_decision"},
            len |-> 26, indent |-> 0, names |-> 0, js_functions |-> 0, js_classes |-> 0, js_decisions |-> 0],
    \* L15: # done
      L15 |-> [feats |-> {"in_hash_sp", "starts_hash"},
            len |-> 6, indent |-> 0, names |-> 0, js_functions |-> 0, js_classes |-> 0, js_decisions |-> 0],
    \* L16: def outer(a):
      L16 |-> [feats |-> {"text_def"},
            len |-> 13, indent |-> 0, names |-> 0, js_functions |-> 0, js_classes |-> 0, js_decisions |-> 0],
    \* L17:     def inner(b):
      L17 |-> [feats |-> {"starts_space", "text_def"},
            len |-> 17, indent |-> 4, names |-> 0, js_functions |-> 0, js_classes |-> 0, js_decisions |-> 0],
    \* L18:         if b:
      L18 |-> [feats |-> {"starts_space", "text_decision"},
            len |-> 13, indent |-> 8, names |-> 0, js_functions |-> 0, js_classes |-> 0, js_decisions |-> 0],
    \* L19:             return 1
      L19 |-> [feats |-> {"starts_space"},
            len |-> 20, indent |-> 12, names |-> 0, js_functions |-> 0, js_classes |-> 0, js_decisions |-> 0],
    \* L20:         return 0
      L20 |-> [feats |-> {"starts_space"},
            len |-> 16, indent |-> 8, names |-> 0, js_functions |-> 0, js_classes |-> 0, js_decisions |-> 0],
    \* L21:     for i in a:
      L21 |-> [feats |-> {"in_for", "in_for_sp", "starts_space", "text_decision"},
            len |-> 15, indent |-> 4, names |-> 0, js_functions |-> 0, js_classes |-> 0, js_decisions |-> 0],
    \* L22:         inner(i)
      L22 |-> [feats |-> {"starts_space"},
            len |-> 16, indent |-> 8, names |-> 0, js_functions |-> 0, js_classes |-> 0, js_decisions |-> 0],
    \* L23: var x = 1;
      L23 |-> [feats |-> {"re_var"},
            len |-> 10, indent |-> 0, names |-> 0, js_functions |-> 0, js_classes |-> 0, js_decisions |-> 0],
    \* L24: if (a) { b(); }
      L24 |-> [feats |-> {"text_decision"},
            len |-> 15, indent |-> 0, names |-> 0, js_functions |-> 0, js_classes |-> 0, js_decisions |-> 1],
    \* L25: console.log(a == b);
      L25 |-> [feats |-> {"re_console", "re_loose_eq"},
            len |-> 20, indent |-> 0, names |-> 0, js_functions |-> 0, js_classes |-> 0, js_decisions |-> 0],
    \* L26: el.innerHTML = eval(s);
      L26 |-> [feats |-> {"re_eval", "re_innerHTML"},
            len |-> 23, indent |-> 0, names |-> 0, js_functions |-> 0, js_classes |-> 0, js_decisions |-> 0],
    \* L27: for (;;) { document.getElementById("a"); }
      L27 |-> [feats |-> {"in_for", "in_for_sp", "re_dom_query", "text_decision"},
            len |-> 42, indent |-> 0, names |-> 0, js_functions |-> 0, js_classes |-> 0, js_decisions |-> 1],
    \* L28: if (xs.indexOf(a) > -1) { }
      L28 |-> [feats |-> {"re_indexof", "text_decision"},
            len |-> 27, indent |-> 0, names |-> 0, js_functions |-> 0, js_classes |-> 0, js_decisions |-> 1],
    \* L29: // note
      L29 |-> [feats |-> {"starts_slashes"},
            len |-> 7, indent |-> 0, names |-> 0, js_functions |-> 0, js_classes |-> 0, js_decisions |-> 0],
    \* L30: api_key = "abcdefgh"
      L30 |-> [feats |-> {"low_sensitive", "re_hardcoded_api_key", "text_credential_literal"},
            len |-> 20, indent |-> 0, names |-> 0, js_functions |-> 0, js_classes |-> 0, js_decisions |-> 0],
    \* L31: var token = "t"
      L31 |-> [feats |-> {"low_sensitive", "re_hardcoded_token", "re_var"},
            len |-> 15, indent |-> 0, names |-> 0, js_functions |-> 0, js_classes |-> 0, js_decisions |-> 0],
    \* L32: const f = (a) => a ? 1 : 2;
      L32 |-> [feats |-> {},
            len |-> 27, indent |-> 0, names |-> 0, js_functions |-> 2, js_classes |-> 0, js_decisions |-> 1],
    \* L33: System.out.println("x");
      L33 |-> [feats |-> {"in_println"},
            len |-> 24, indent |-> 0, names |-> 0, js_functions |-> 0, js_classes |-> 0, js_decisions |-> 0],
    \* L34: try { } catch (Exception e) { }
      L34 |-> [feats |-> {"re_empty_catch"},
            len |-> 31, indent |-> 0, names |-> 0, js_functions |-> 0, js_classes |-> 0, js_decisions |-> 1],
    \* L35: secret = "s3cr3t!!"
      L35 |-> [feats |-> {"low_sensitive", "re_hardcoded_secret", "text_credential_literal"},
            len |-> 19, indent |-> 0, names |-> 0, js_functions |-> 0, js_classes |-> 0, js_decisions |-> 0],
    \* L36: execute("select %s" % a)
      L36 |-> [feats |-> {"re_sql_format"},
            len |-> 24, indent |-> 0, names |-> 0, js_functions |-> 0, js_classes |-> 0, js_decisions |-> 0],
    \* L37: q = "a" + b + "c"
      L37 |-> [feats |-> {"re_sql_concat"},
            len |-> 17, indent |-> 0, names |-> 0, js_functions |-> 0, js_classes |-> 0, js_decisions |-> 0],
    \* L38: -- end
      L38 |-> [feats |-> {"starts_dashes"},
            len |-> 6, indent |-> 0, names |-> 0, js_functions |-> 0, js_classes |-> 0, js_decisions |-> 0],
    \* L39: - hosts: all
      L39 |-> [feats |-> {"in_hosts"},
            len |-> 12, indent |-> 0, names |-> 0, js_functions |-> 0, js_classes |-> 0, js_decisions |-> 0],
    \* L40:   tasks:
      L40 |-> [feats |-> {"in_tasks", "starts_space"},
            len |-> 8, indent |-> 2, names |-> 0, js_functions |-> 0, js_classes |-> 0, js_decisions |-> 0],
    \* L41:   - name: x
      L41 |-> [feats |-> {"in_dash_name", "starts_space"},
            len |-> 11, indent |-> 2, names |-> 1, js_functions |-> 0, js_classes |-> 0, js_decisions |-> 0],
    \* L42:     password: abc
      L42 |-> [feats |-> {"in_password", "low_sensitive", "re_ansible_secret", "starts_space"},
            len |-> 17, indent |-> 4, names |-> 0, js_functions |-> 0, js_classes |-> 0, js_decisions |-> 0],
    \* L43:     shell: sudo apt install {{ item }}
      L43 |-> [feats |-> {"in_braces", "in_close_braces", "low_pkg_cmd", "low_unsafe", "re_shell_cmd", "re_shell_or_cmd", "re_shell_sudo", "starts_space"},
            len |-> 38, indent |-> 4, names |-> 0, js_functions |-> 0, js_classes |-> 0, js_decisions |-> 0],
    \* L44:     register: r
      L44 |-> [feats |-> {"in_register", "starts_space"},
            len |-> 15, indent |-> 4, names |-> 0, js_functions |-> 0, js_classes |-> 0, js_decisions |-> 0],
    \* L45:     with_items: xs
      L45 |-> [feats |-> {"in_with_items", "low_unsafe", "starts_space"},
            len |-> 18, indent |-> 4, names |-> 0, js_functions |-> 0, js_classes |-> 0, js_decisions |-> 0],
    \* L46: - hosts: web
      L46 |-> [feats |-> {"in_hosts"},
            len |-> 12, indent |-> 0, names |-> 0, js_functions |-> 0, js_classes |-> 0, js_decisions |-> 0],
    \* L47:   become: yes
      L47 |-> [feats |-> {"in_become", "starts_space"},
            len |-> 13, indent |-> 2, names |-> 0, js_functions |-> 0, js_classes |-> 0, js_decisions |-> 0],
    \* L48:    vars:
      L48 |-> [feats |-> {"in_vars", "starts_space"},
            len |-> 8, indent |-> 3, names |-> 0, js_functions |-> 0, js_classes |-> 0, js_decisions |-> 0],
    \* L49: <TAB>k: v  
      L49 |-> [feats |-> {"in_tab", "trailing_ws"},
            len |-> 7, indent |-> 1, names |-> 0, js_functions |-> 0, js_classes |-> 0, js_decisions |-> 0],
    \* L50:   - name: u
      L50 |-> [feats |-> {"in_dash_name", "starts_space"},
            len |-> 11, indent |-> 2, names |-> 1, js_functions |-> 0, js_classes |-> 0, js_decisions |-> 0],
    \* L51:     user: name=bob password=hunter2
      L51 |-> [feats |-> {"any_user_module", "in_password", "low_sensitive", "starts_space"},
            len |-> 35, indent |-> 4, names |-> 0, js_functions |-> 0, js_classes |-> 0, js_decisions |-> 0],
    \* L52:     debug: msg={{ secret_key }}
      L52 |-> [feats |-> {"in_braces", "in_close_braces", "in_debug", "low_sensitive", "starts_space"},
            len |-> 31, indent |-> 4, names |-> 0, js_functions |-> 0, js_classes |-> 0, js_decisions |-> 0],
    \* L53:     copy: src={{ f }} mode: 777
      L53 |-> [feats |-> {"in_braces", "in_close_braces", "in_mode", "mode_world", "re_mode", "starts_space"},
            len |-> 31, indent |-> 4, names |-> 0, js_functions |-> 0, js_classes |-> 0, js_decisions |-> 0],
    \* L54:     include: x.yml
      L54 |-> [feats |-> {"re_dep_include", "starts_space"},
            len |-> 18, indent |-> 4, names |-> 0, js_functions |-> 0, js_classes |-> 0, js_decisions |-> 0],
    \* L55:     api_key: abcdefgh1234
      L55 |-> [feats |-> {"low_sensitive", "re_ansible_secret", "re_yaml_secret", "starts_space"},
            len |-> 25, indent |-> 4, names |-> 0, js_functions |-> 0, js_classes |-> 0, js_decisions |-> 0],
    \* L56:     url: http://bob:pw@host/
      L56 |-> [feats |-> {"re_url_cred", "starts_space"},
            len |-> 28, indent |-> 4, names |-> 0, js_functions |-> 0, js_classes |-> 0, js_decisions |-> 0],
    \* L57:     when: x
      L57 |-> [feats |-> {"in_when", "starts_space"},
            len |-> 11, indent |-> 4, names |-> 0, js_functions |-> 0, js_classes |-> 0, js_decisions |-> 0],
    \* L58:     register: r1
      L58 |-> [feats |-> {"in_register", "starts_space"},
            len |-> 16, indent |-> 4, names |-> 0, js_functions |-> 0, js_classes |-> 0, js_decisions |-> 0],
    \* L59:     a: 1
      L59 |-> [feats |-> {"starts_space"},
            len |-> 8, indent |-> 4, names |-> 0, js_functions |-> 0, js_classes |-> 0, js_decisions |-> 0],
    \* L60:     b: 2
      L60 |-> [feats |-> {"starts_space"},
            len |-> 8, indent |-> 4, names |-> 0, js_functions |-> 0, js_classes |-> 0, js_decisions |-> 0],
    \* L61:     c: 3
      L61 |-> [feats |-> {"starts_space"},
            len |-> 8, indent |-> 4, names |-> 0, js_functions |-> 0, js_classes |-> 0, js_decisions |-> 0],
    \* L62:     d: 4
      L62 |-> [feats |-> {"starts_space"},
            len |-> 8, indent |-> 4, names |-> 0, js_functions |-> 0, js_classes |-> 0, js_decisions |-> 0],
    \* L63:     e: 5
      L63 |-> [feats |-> {"starts_space"},
            len |-> 8, indent |-> 4, names |-> 0, js_functions |-> 0, js_classes |-> 0, js_decisions |-> 0],
    \* L64:     f: 6
      L64 |-> [feats |-> {"starts_space"},
            len |-> 8, indent |-> 4, names |-> 0, js_functions |-> 0, js_classes |-> 0, js_decisions |-> 0],
    \* L65:     g: 7
      L65 |-> [feats |-> {"starts_space"},
            len |-> 8, indent |-> 4, names |-> 0, js_functions |-> 0, js_classes |-> 0, js_decisions |-> 0],
    \* L66: name: app
      L66 |-> [feats |-> {},
            len |-> 9, indent |-> 0, names |-> 0, js_functions |-> 0, js_classes |-> 0, js_decisions |-> 0],
    \* L67: <TAB>port: 80
      L67 |-> [feats |-> {"in_tab"},
            len |-> 9, indent |-> 1, names |-> 0, js_functions |-> 0, js_classes |-> 0, js_decisions |-> 0],
    \* L68:  token: abcdefgh 
      L68 |-> [feats |-> {"low_sensitive", "re_ansible_secret", "re_yaml_secret", "starts_space", "trailing_ws"},
            len |-> 17, indent |-> 1, names |-> 0, js_functions |-> 0, js_classes |-> 0, js_decisions |-> 0],
    \* L69: PNG
      L69 |-> [feats |-> {},
            len |-> 3, indent |-> 0, names |-> 0, js_functions |-> 0, js_classes |-> 0, js_decisions |-> 0],
    \* L70: x = 1<NUL>
      L70 |-> [feats |-> {},
            len |-> 6, indent |-> 0, names |-> 0, js_functions |-> 0, js_classes |-> 0, js_decisions |-> 0],
    \* L71: {"password": "secret123"}
      L71 |-> [feats |-> {"in_password", "low_sensitive"},
            len |-> 25, indent |-> 0, names |-> 0, js_functions |-> 0, js_classes |-> 0, js_decisions |-> 0],
    \* L72: x = 1
      L72 |-> [feats |-> {},
            len |-> 5, indent |-> 0, names |-> 0, js_functions |-> 0, js_classes |-> 0, js_decisions |-> 0],
    \* L73: all:
      L73 |-> [feats |-> {},
            len |-> 4, indent |-> 0, names |-> 0, js_functions |-> 0, js_classes |-> 0, js_decisions |-> 0],
    \* L74: exec(cmd)
      L74 |-> [feats |-> {"re_exec"},
            len |-> 9, indent |-> 0, names |-> 0, js_functions |-> 0, js_classes |-> 0, js_decisions |-> 0],
    \* L75: os.system(cmd)
      L75 |-> [feats |-> {"re_os_system"},
            len |-> 14, indent |-> 0, names |-> 0, js_functions |-> 0, js_classes |-> 0, js_decisions |-> 0],
    \* L76: var x = eval(y);
      L76 |-> [feats |-> {"re_eval", "re_var"},
            len |-> 16, indent |-> 0, names |-> 0, js_functions |-> 0, js_classes |-> 0, js_decisions |-> 0],
    \* L77:   password: abc
      L77 |-> [feats |-> {"in_password", "low_sensitive", "re_ansible_secret", "starts_space"},
            len |-> 15, indent |-> 2, names |-> 0, js_functions |-> 0, js_classes |-> 0, js_decisions |-> 0],
    \* L78: x = a+a+a+a+a+a+a+a+a+a+a+a+a+a+a+a+a+a+a+a+a+a+a+a+a+a+a...
      L78 |-> [feats |-> {},
            len |-> 400005, indent |-> 0, names |-> 0, js_functions |-> 0, js_classes |-> 0, js_decisions |-> 0],
    \* L79: token = "abcdefgh"
      L79 |-> [feats |-> {"low_sensitive", "re_hardcoded_token", "text_credential_literal"},
            len |-> 18, indent |-> 0, names |-> 0, js_functions |-> 0, js_classes |-> 0, js_decisions |-> 0],
    \* L80: def g(:
      L80 |-> [feats |-> {"text_def"},
            len |-> 7, indent |-> 0, names |-> 0, js_functions |-> 0, js_classes |-> 0, js_decisions |-> 0],
    \* L81:     while y
      L81 |-> [feats |-> {"in_while", "in_while_sp", "starts_space", "text_decision"},
            len |-> 11, indent |-> 4, names |-> 0, js_functions |-> 0, js_classes |-> 0, js_decisions |-> 0],
    \* L82: cfg = {
      L82 |-> [feats |-> {},
            len |-> 7, indent |-> 0, names |-> 0, js_functions |-> 0, js_classes |-> 0, js_decisions |-> 0],
    \* L83:   password: "secret123",
      L83 |-> [feats |-> {"in_password", "low_sensitive", "re_ansible_secret", "re_yaml_secret", "starts_space", "text_credential_literal"},
            len |-> 24, indent |-> 2, names |-> 0, js_functions |-> 0, js_classes |-> 0, js_decisions |-> 0],
    \* L84: secret = "s"
      L84 |-> [feats |-> {"low_sensitive", "re_hardcoded_secret"},
            len |-> 12, indent |-> 0, names |-> 0, js_functions |-> 0, js_classes |-> 0, js_decisions |-> 0],
    \* L85: print("a")
      L85 |-> [feats |-> {},
            len |-> 10, indent |-> 0, names |-> 0, js_functions |-> 0, js_classes |-> 0, js_decisions |-> 0],
    \* L86: console.log("b")
      L86 |-> [feats |-> {"re_console"},
            len |-> 16, indent |-> 0, names |-> 0, js_functions |-> 0, js_classes |-> 0, js_decisions |-> 0],
    \* L87: // limits
      L87 |-> [feats |-> {"starts_slashes"},
            len |-> 9, indent |-> 0, names |-> 0, js_functions |-> 0, js_classes |-> 0, js_decisions |-> 0],
    \* L88: #define MAX 10
      L88 |-> [feats |-> {"starts_hash"},
            len |-> 14, indent |-> 0, names |-> 0, js_functions |-> 0, js_classes |-> 0, js_decisions |-> 0],
    \* L89: int f(int a);
      L89 |-> [feats |-> {},
            len |-> 13, indent |-> 0, names |-> 0, js_functions |-> 0, js_classes |-> 0, js_decisions |-> 0],
    \* L90: [packages]
      L90 |-> [feats |-> {},
            len |-> 10, indent |-> 0, names |-> 0, js_functions |-> 0, js_classes |-> 0, js_decisions |-> 0],
    \* L91: flask = "*"
      L91 |-> [feats |-> {},
            len |-> 11, indent |-> 0, names |-> 0, js_functions |-> 0, js_classes |-> 0, js_decisions |-> 0],
    \* L92: [dev-packages]
      L92 |-> [feats |-> {},
            len |-> 14, indent |-> 0, names |-> 0, js_functions |-> 0, js_classes |-> 0, js_decisions |-> 0],
    \* L93: pytest = "*"
      L93 |-> [feats |-> {},
            len |-> 12, indent |-> 0, names |-> 0, js_functions |-> 0, js_classes |-> 0, js_decisions |-> 0],
    \* L94: requests>=2.0
      L94 |-> [feats |-> {},
            len |-> 13, indent |-> 0, names |-> 0, js_functions |-> 0, js_classes |-> 0, js_decisions |-> 0],
    \* L95: flask
      L95 |-> [feats |-> {},
            len |-> 5, indent |-> 0, names |-> 0, js_functions |-> 0, js_classes |-> 0, js_decisions |-> 0],
    \* L96: flask==2.0
      L96 |-> [feats |-> {"re_loose_eq"},
            len |-> 10, indent |-> 0, names |-> 0, js_functions |-> 0, js_classes |-> 0, js_decisions |-> 0],
    \* L97: # pinned
      L97 |-> [feats |-> {"in_hash_sp", "starts_hash"},
            len |-> 8, indent |-> 0, names |-> 0, js_functions |-> 0, js_classes |-> 0, js_decisions |-> 0],
    \* L98: pytest
      L98 |-> [feats |-> {},
            len |-> 6, indent |-> 0, names |-> 0, js_functions |-> 0, js_classes |-> 0, js_decisions |-> 0],
    \* L99: {"dependencies": {"left-pad": "1"}, "devDependencies": ["...
      L99 |-> [feats |-> {},
            len |-> 64, indent |-> 0, names |-> 0, js_functions |-> 0, js_classes |-> 0, js_decisions |-> 0],
    \* L100: import os
      L100 |-> [feats |-> {},
            len |-> 9, indent |-> 0, names |-> 0, js_functions |-> 0, js_classes |-> 0, js_decisions |-> 0],
    \* L101: var a = 1;
      L101 |-> [feats |-> {"re_var"},
            len |-> 10, indent |-> 0, names |-> 0, js_functions |-> 0, js_classes |-> 0, js_decisions |-> 0],
    \* L102: x
      L102 |-> [feats |-> {},
            len |-> 1, indent |-> 0, names |-> 0, js_functions |-> 0, js_classes |-> 0, js_decisions |-> 0] ]

FileTable ==
    [ clean_go |-> [name |-> "main.go", basename |-> "main.go", ext |-> ".go", dirs |-> <<>>, dirglobs |-> <<>>, globs |-> {}, mime |-> "none",
            readable |-> TRUE, null_byte |-> FALSE, size |-> 30, vanish |-> "never",
            lines |-> <<"L1", "L2", "L3", "L4", "L2">>,
            nolog |-> {}, digest |-> "7531bb03",
            deps |-> [direct |-> <<>>, dev |-> <<>>, optional |-> <<>>, raised |-> FALSE],
            bandit |-> [status |-> "ok", items |-> <<>>],
            ansible_lint |-> [status |-> "ok", items |-> <<>>],
            yamllint |-> [status |-> "ok", items |-> <<>>],
            ast |-> [ok |-> TRUE, error |-> "none", lineno |-> 0,
                     nodes |-> <<>>]],
      big_go |-> [name |-> "gen.go", basename |-> "gen.go", ext |-> ".go", dirs |-> <<>>, dirglobs |-> <<>>, globs |-> {}, mime |-> "none",
            readable |-> TRUE, null_byte |-> FALSE, size |-> 713, vanish |-> "never",
            lines |-> <<"L1">> \o Rep("L2", 701),
            nolog |-> {}, digest |-> "b383e910",
            deps |-> [direct |-> <<>>, dev |-> <<>>, optional |-> <<>>, raised |-> FALSE],
            bandit |-> [status |-> "ok", items |-> <<>>],
            ansible_lint |-> [status |-> "ok", items |-> <<>>],
            yamllint |-> [status |-> "ok", items |-> <<>>],
            ast |-> [ok |-> TRUE, error |-> "none", lineno |-> 0,
                     nodes |-> <<>>]],
      pw_py |-> [name |-> "a.py", basename |-> "a.py", ext |-> ".py", dirs |-> <<>>, dirglobs |-> <<>>, globs |-> {}, mime |-> "text",
            readable |-> TRUE, null_byte |-> FALSE, size |-> 22, vanish |-> "never",
            lines |-> <<"L5">>,
            nolog |-> {}, digest |-> "54d084b5",
            deps |-> [direct |-> <<>>, dev |-> <<>>, optional |-> <<>>, raised |-> FALSE],
            bandit |-> [status |-> "ok", items |-> <<[id |-> "B105", level |-> "low", line |-> 1]>>],
            ansible_lint |-> [status |-> "ok", items |-> <<>>],
            yamllint |-> [status |-> "ok", items |-> <<>>],
            ast |-> [ok |-> TRUE, error |-> "none", lineno |-> 0,
                     nodes |-> <<[type |-> "Other", parent |-> 0, lineno |-> 0, nargs |-> 0, nvalues |-> 0],
                 [type |-> "Other", parent |-> 1, lineno |-> 1, nargs |-> 0, nvalues |-> 0],
                 [type |-> "Other", parent |-> 2, lineno |-> 1, nargs |-> 0, nvalues |-> 0],
                 [type |-> "Other", parent |-> 2, lineno |-> 1, nargs |-> 0, nvalues |-> 0],
                 [type |-> "Other", parent |-> 3, lineno |-> 0, nargs |-> 0, nvalues |-> 0]>>]],
      evals_py |-> [name |-> "danger.py", basename |-> "danger.py", ext |-> ".py", dirs |-> <<>>, dirglobs |-> <<>>, globs |-> {}, mime |-> "text",
            readable |-> TRUE, null_byte |-> FALSE, size |-> 48, vanish |-> "never",
            lines |-> Rep("L6", 6) \o <<"L2">>,
            nolog |-> {}, digest |-> "f7068165",
            deps |-> [direct |-> <<>>, dev |-> <<>>, optional |-> <<>>, raised |-> FALSE],
            bandit |-> [status |-> "caught", items |-> <<>>],
            ansible_lint |-> [status |-> "ok", items |-> <<>>],
            yamllint |-> [status |-> "ok", items |-> <<>>],
            ast |-> [ok |-> TRUE, error |-> "none", lineno |-> 0,
                     nodes |-> <<[type |-> "Other", parent |-> 0, lineno |-> 0, nargs |-> 0, nvalues |-> 0],
                 [type |-> "Other", parent |-> 1, lineno |-> 1, nargs |-> 0, nvalues |-> 0],
                 [type |-> "Other", parent |-> 1, lineno |-> 2, nargs |-> 0, nvalues |-> 0],
                 [type |-> "Other", parent |-> 1, lineno |-> 3, nargs |-> 0, nvalues |-> 0],
                 [type |-> "Other", parent |-> 1, lineno |-> 4, nargs |-> 0, nvalues |-> 0],
                 [type |-> "Other", parent |-> 1, lineno |-> 5, nargs |-> 0, nvalues |-> 0],
                 [type |-> "Other", parent |-> 1, lineno |-> 6, nargs |-> 0, nvalues |-> 0],
                 [type |-> "Other", parent |-> 2, lineno |-> 1, nargs |-> 0, nvalues |-> 0],
                 [type |-> "Other", parent |-> 3, lineno |-> 2, nargs |-> 0, nvalues |-> 0],
                 [type |-> "Other", parent |-> 4, lineno |-> 3, nargs |-> 0, nvalues |-> 0],
                 [type |-> "Other", parent |-> 5, lineno |-> 4, nargs |-> 0, nvalues |-> 0],
                 [type |-> "Other", parent |-> 6, lineno |-> 5, nargs |-> 0, nvalues |-> 0],
                 [type |-> "Other", parent |-> 7, lineno |-> 6, nargs |-> 0, nvalues |-> 0],
                 [type |-> "Other", parent |-> 8, lineno |-> 1, nargs |-> 0, nvalues |-> 0],
                 [type |-> "Other", parent |-> 8, lineno |-> 1, nargs |-> 0, nvalues |-> 0],
                 [type |-> "Other", parent |-> 9, lineno |-> 2, nargs |-> 0, nvalues |-> 0],
                 [type |-> "Other", parent |-> 9, lineno |-> 2, nargs |-> 0, nvalues |-> 0],
                 [type |-> "Other", parent |-> 10, lineno |-> 3, nargs |-> 0, nvalues |-> 0],
                 [type |-> "Other", parent |-> 10, lineno |-> 3, nargs |-> 0, nvalues |-> 0],
                 [type |-> "Other", parent |-> 11, lineno |-> 4, nargs |-> 0, nvalues |-> 0],
                 [type |-> "Other", parent |-> 11, lineno |-> 4, nargs |-> 0, nvalues |-> 0],
                 [type |-> "Other", parent |-> 12, lineno |-> 5, nargs |-> 0, nvalues |-> 0],
                 [type |-> "Other", parent |-> 12, lineno |-> 5, nargs |-> 0, nvalues |-> 0],
                 [type |-> "Other", parent |-> 13, lineno |-> 6, nargs |-> 0, nvalues |-> 0],
                 [type |-> "Other", parent |-> 13, lineno |-> 6, nargs |-> 0, nvalues |-> 0],
                 [type |-> "Other", parent |-> 25, lineno |-> 0, nargs |-> 0, nvalues |-> 0],
                 [type |-> "Other", parent |-> 25, lineno |-> 0, nargs |-> 0, nvalues |-> 0],
                 [type |-> "Other", parent |-> 25, lineno |-> 0, nargs |-> 0, nvalues |-> 0],
                 [type |-> "Other", parent |-> 25, lineno |-> 0, nargs |-> 0, nvalues |-> 0],
                 [type |-> "Other", parent |-> 25, lineno |-> 0, nargs |-> 0, nvalues |-> 0],
                 [type |-> "Other", parent |-> 25, lineno |-> 0, nargs |-> 0, nvalues |-> 0],
                 [type |-> "Other", parent |-> 25, lineno |-> 0, nargs |-> 0, nvalues |-> 0],
                 [type |-> "Other", parent |-> 25, lineno |-> 0, nargs |-> 0, nvalues |-> 0],
                 [type |-> "Other", parent |-> 25, lineno |-> 0, nargs |-> 0, nvalues |-> 0],
                 [type |-> "Other", parent |-> 25, lineno |-> 0, nargs |-> 0, nvalues |-> 0],
                 [type |-> "Other", parent |-> 25, lineno |-> 0, nargs |-> 0, nvalues |-> 0],
                 [type |-> "Other", parent |-> 25, lineno |-> 0, nargs |-> 0, nvalues |-> 0]>>]],
      syntax_py |-> [name |-> "broken.py", basename |-> "broken.py", ext |-> ".py", dirs |-> <<>>, dirglobs |-> <<>>, globs |-> {}, mime |-> "text",
            readable |-> TRUE, null_byte |-> FALSE, size |-> 17, vanish |-> "never",
            lines |-> <<"L7", "L8", "L2">>,
            nolog |-> {}, digest |-> "a413e174",
            deps |-> [direct |-> <<>>, dev |-> <<>>, optional |-> <<>>, raised |-> FALSE],
            bandit |-> [status |-> "ok", items |-> <<>>],
            ansible_lint |-> [status |-> "ok", items |-> <<>>],
            yamllint |-> [status |-> "ok", items |-> <<>>],
            ast |-> [ok |-> FALSE, error |-> "SyntaxError", lineno |-> 1,
                     nodes |-> <<>>]],
      args_py |-> [name |-> "wide.py", basename |-> "wide.py", ext |-> ".py", dirs |-> <<>>, dirglobs |-> <<>>, globs |-> {}, mime |-> "text",
            readable |-> TRUE, null_byte |-> FALSE, size |-> 257, vanish |-> "never",
            lines |-> <<"L9", "L10", "L11", "L12", "L2">>,
            nolog |-> {}, digest |-> "940957dc",
            deps |-> [direct |-> <<>>, dev |-> <<>>, optional |-> <<>>, raised |-> FALSE],
            bandit |-> [status |-> "ok", items |-> <<>>],
            ansible_lint |-> [status |-> "ok", items |-> <<>>],
            yamllint |-> [status |-> "ok", items |-> <<>>],
            ast |-> [ok |-> TRUE, error |-> "none", lineno |-> 0,
                     nodes |-> <<[type |-> "Other", parent |-> 0, lineno |-> 0, nargs |-> 0, nvalues |-> 0],
                 [type |-> "FunctionDef", parent |-> 1, lineno |-> 1, nargs |-> 8, nvalues |-> 0],
                 [type |-> "Other", parent |-> 2, lineno |-> 0, nargs |-> 0, nvalues |-> 0],
                 [type |-> "If", parent |-> 2, lineno |-> 2, nargs |-> 0, nvalues |-> 0],
                 [type |-> "Other", parent |-> 2, lineno |-> 4, nargs |-> 0, nvalues |-> 0],
                 [type |-> "Other", parent |-> 3, lineno |-> 1, nargs |-> 0, nvalues |-> 0],
                 [type |-> "Other", parent |-> 3, lineno |-> 1, nargs |-> 0, nvalues |-> 0],
                 [type |-> "Other", parent |-> 3, lineno |-> 1, nargs |-> 0, nvalues |-> 0],
                 [type |-> "Other", parent |-> 3, lineno |-> 1, nargs |-> 0, nvalues |-> 0],
                 [type |-> "Other", parent |-> 3, lineno |-> 1, nargs |-> 0, nvalues |-> 0],
                 [type |-> "Other", parent |-> 3, lineno |-> 1, nargs |-> 0, nvalues |-> 0],
                 [type |-> "Other", parent |-> 3, lineno |-> 1, nargs |-> 0, nvalues |-> 0],
                 [type |-> "Other", parent |-> 3, lineno |-> 1, nargs |-> 0, nvalues |-> 0],
                 [type |-> "BoolOp", parent |-> 4, lineno |-> 2, nargs |-> 0, nvalues |-> 2],
                 [type |-> "Other", parent |-> 4, lineno |-> 3, nargs |-> 0, nvalues |-> 0],
                 [type |-> "Other", parent |-> 5, lineno |-> 4, nargs |-> 0, nvalues |-> 0],
                 [type |-> "Other", parent |-> 5, lineno |-> 4, nargs |-> 0, nvalues |-> 0],
                 [type |-> "Other", parent |-> 14, lineno |-> 0, nargs |-> 0, nvalues |-> 0],
                 [type |-> "BoolOp", parent |-> 14, lineno |-> 2, nargs |-> 0, nvalues |-> 2],
                 [type |-> "Other", parent |-> 14, lineno |-> 2, nargs |-> 0, nvalues |-> 0],
                 [type |-> "Other", parent |-> 15, lineno |-> 3, nargs |-> 0, nvalues |-> 0],
                 [type |-> "Other", parent |-> 38, lineno |-> 0, nargs |-> 0, nvalues |-> 0],
                 [type |-> "Other", parent |-> 17, lineno |-> 4, nargs |-> 0, nvalues |-> 0],
                 [type |-> "Other", parent |-> 152, lineno |-> 0, nargs |-> 0, nvalues |-> 0],
                 [type |-> "Other", parent |-> 17, lineno |-> 4, nargs |-> 0, nvalues |-> 0],
                 [type |-> "Other", parent |-> 19, lineno |-> 0, nargs |-> 0, nvalues |-> 0],
                 [type |-> "Other", parent |-> 19, lineno |-> 2, nargs |-> 0, nvalues |-> 0],
                 [type |-> "Other", parent |-> 19, lineno |-> 2, nargs |-> 0, nvalues |-> 0],
                 [type |-> "Other", parent |-> 40, lineno |-> 0, nargs |-> 0, nvalues |-> 0],
                 [type |-> "Other", parent |-> 21, lineno |-> 3, nargs |-> 0, nvalues |-> 0],
                 [type |-> "comprehension", parent |-> 21, lineno |-> 0, nargs |-> 0, nvalues |-> 0],
                 [type |-> "Other", parent |-> 23, lineno |-> 4, nargs |-> 0, nvalues |-> 0],
                 [type |-> "Other", parent |-> 152, lineno |-> 0, nargs |-> 0, nvalues |-> 0],
                 [type |-> "Other", parent |-> 23, lineno |-> 4, nargs |-> 0, nvalues |-> 0],
                 [type |-> "Other", parent |-> 40, lineno |-> 0, nargs |-> 0, nvalues |-> 0],
                 [type |-> "Other", parent |-> 40, lineno |-> 0, nargs |-> 0, nvalues |-> 0],
                 [type |-> "Other", parent |-> 40, lineno |-> 0, nargs |-> 0, nvalues |-> 0],
                 [type |-> "Other", parent |-> 31, lineno |-> 3, nargs |-> 0, nvalues |-> 0],
                 [type |-> "Other", parent |-> 31, lineno |-> 3, nargs |-> 0, nvalues |-> 0],
                 [type |-> "Other", parent |-> 31, lineno |-> 3, nargs |-> 0, nvalues |-> 0],
                 [type |-> "Other", parent |-> 32, lineno |-> 4, nargs |-> 0, nvalues |-> 0],
                 [type |-> "Other", parent |-> 152, lineno |-> 0, nargs |-> 0, nvalues |-> 0],
                 [type |-> "Other", parent |-> 32, lineno |-> 4, nargs |-> 0, nvalues |-> 0],
                 [type |-> "Other", parent |-> 38, lineno |-> 0, nargs |-> 0, nvalues |-> 0],
                 [type |-> "Other", parent |-> 40, lineno |-> 0, nargs |-> 0, nvalues |-> 0],
                 [type |-> "Other", parent |-> 40, lineno |-> 0, nargs |-> 0, nvalues |-> 0],
                 [type |-> "Other", parent |-> 41, lineno |-> 4, nargs |-> 0, nvalues |-> 0],
                 [type |-> "Other", parent |-> 152, lineno |-> 0, nargs |-> 0, nvalues |-> 0],
                 [type |-> "Other", parent |-> 41, lineno |-> 4, nargs |-> 0, nvalues |-> 0],
                 [type |-> "Other", parent |-> 47, lineno |-> 4, nargs |-> 0, nvalues |-> 0],
                 [type |-> "Other", parent |-> 152, lineno |-> 0, nargs |-> 0, nvalues |-> 0],
                 [type |-> "Other", parent |-> 47, lineno |-> 4, nargs |-> 0, nvalues |-> 0],
                 [type |-> "Other", parent |-> 50, lineno |-> 4, nargs |-> 0, nvalues |-> 0],
                 [type |-> "Other", parent |-> 152, lineno |-> 0, nargs |-> 0, nvalues |-> 0],
                 [type |-> "Other", parent |-> 50, lineno |-> 4, nargs |-> 0, nvalues |-> 0],
                 [type |-> "Other", parent |-> 53, lineno |-> 4, nargs |-> 0, nvalues |-> 0],
                 [type |-> "Other", parent |-> 152, lineno |-> 0, nargs |-> 0, nvalues |-> 0],
                 [type |-> "Other", parent |-> 53, lineno |-> 4, nargs |-> 0, nvalues |-> 0],
                 [type |-> "Other", parent |-> 56, lineno |-> 4, nargs |-> 0, nvalues |-> 0],
                 [type |-> "Other", parent |-> 152, lineno |-> 0, nargs |-> 0, nvalues |-> 0],
                 [type |-> "Other", parent |-> 56, lineno |-> 4, nargs |-> 0, nvalues |-> 0],
                 [type |-> "Other", parent |-> 59, lineno |-> 4, nargs |-> 0, nvalues |-> 0],
                 [type |-> "Other", parent |-> 152, lineno |-> 0, nargs |-> 0, nvalues |-> 0],
                 [type |-> "Other", parent |-> 59, lineno |-> 4, nargs |-> 0, nvalues |-> 0],
                 [type |-> "Other", parent |-> 62, lineno |-> 4, nargs |-> 0, nvalues |-> 0],
                 [type |-> "Other", parent |-> 152, lineno |-> 0, nargs |-> 0, nvalues |-> 0],
                 [type |-> "Other", parent |-> 62, lineno |-> 4, nargs |-> 0, nvalues |-> 0],
                 [type |-> "Other", parent |-> 65, lineno |-> 4, nargs |-> 0, nvalues |-> 0],
                 [type |-> "Other", parent |-> 152, lineno |-> 0, nargs |-> 0, nvalues |-> 0],
                 [type |-> "Other", parent |-> 65, lineno |-> 4, nargs |-> 0, nvalues |-> 0],
                 [type |-> "Other", parent |-> 68, lineno |-> 4, nargs |-> 0, nvalues |-> 0],
                 [type |-> "Other", parent |-> 152, lineno |-> 0, nargs |-> 0, nvalues |-> 0],
                 [type |-> "Other", parent |-> 68, lineno |-> 4, nargs |-> 0, nvalues |-> 0],
                 [type |-> "Other", parent |-> 71, lineno |-> 4, nargs |-> 0, nvalues |-> 0],
                 [type |-> "Other", parent |-> 152, lineno |-> 0, nargs |-> 0, nvalues |-> 0],
                 [type |-> "Other", parent |-> 71, lineno |-> 4, nargs |-> 0, nvalues |-> 0],
                 [type |-> "Other", parent |-> 74, lineno |-> 4, nargs |-> 0, nvalues |-> 0],
                 [type |-> "Other", parent |-> 152, lineno |-> 0, nargs |-> 0, nvalues |-> 0],
                 [type |-> "Other", parent |-> 74, lineno |-> 4, nargs |-> 0, nvalues |-> 0],
                 [type |-> "Other", parent |-> 77, lineno |-> 4, nargs |-> 0, nvalues |-> 0],
                 [type |-> "Other", parent |-> 152, lineno |-> 0, nargs |-> 0, nvalues |-> 0],
                 [type |-> "Other", parent |-> 77, lineno |-> 4, nargs |-> 0, nvalues |-> 0],
                 [type |-> "Other", parent |-> 80, lineno |-> 4, nargs |-> 0, nvalues |-> 0],
                 [type |-> "Other", parent |-> 152, lineno |-> 0, nargs |-> 0, nvalues |-> 0],
                 [type |-> "Other", parent |-> 80, lineno |-> 4, nargs |-> 0, nvalues |-> 0],
                 [type |-> "Other", parent |-> 83, lineno |-> 4, nargs |-> 0, nvalues |-> 0],
                 [type |-> "Other", parent |-> 152, lineno |-> 0, nargs |-> 0, nvalues |-> 0],
                 [type |-> "Other", parent |-> 83, lineno |-> 4, nargs |-> 0, nvalues |-> 0],
                 [type |-> "Other", parent |-> 86, lineno |-> 4, nargs |-> 0, nvalues |-> 0],
                 [type |-> "Other", parent |-> 152, lineno |-> 0, nargs |-> 0, nvalues |-> 0],
                 [type |-> "Other", parent |-> 86, lineno |-> 4, nargs |-> 0, nvalues |-> 0],
                 [type |-> "Other", parent |-> 89, lineno |-> 4, nargs |-> 0, nvalues |-> 0],
                 [type |-> "Other", parent |-> 152, lineno |-> 0, nargs |-> 0, nvalues |-> 0],
                 [type |-> "Other", parent |-> 89, lineno |-> 4, nargs |-> 0, nvalues |-> 0],
                 [type |-> "Other", parent |-> 92, lineno |-> 4, nargs |-> 0, nvalues |-> 0],
                 [type |-> "Other", parent |-> 152, lineno |-> 0, nargs |-> 0, nvalues |-> 0],
                 [type |-> "Other", parent |-> 92, lineno |-> 4, nargs |-> 0, nvalues |-> 0],
                 [type |-> "Other", parent |-> 95, lineno |-> 4, nargs |-> 0, nvalues |-> 0],
                 [type |-> "Other", parent |-> 152, lineno |-> 0, nargs |-> 0, nvalues |-> 0],
                 [type |-> "Other", parent |-> 95, lineno |-> 4, nargs |-> 0, nvalues |-> 0],
                 [type |-> "Other", parent |-> 98, lineno |-> 4, nargs |-> 0, nvalues |-> 0],
                 [type |-> "Other", parent |-> 152, lineno |-> 0, nargs |-> 0, nvalues |-> 0],
                 [type |-> "Other", parent |-> 98, lineno |-> 4, nargs |-> 0, nvalues |-> 0],
                 [type |-> "Other", parent |-> 101, lineno |-> 4, nargs |-> 0, nvalues |-> 0],
                 [type |-> "Other", parent |-> 152, lineno |-> 0, nargs |-> 0, nvalues |-> 0],
                 [type |-> "Other", parent |-> 101, lineno |-> 4, nargs |-> 0, nvalues |-> 0],
                 [type |-> "Other", parent |-> 104, lineno |-> 4, nargs |-> 0, nvalues |-> 0],
                 [type |-> "Other", parent |-> 152, lineno |-> 0, nargs |-> 0, nvalues |-> 0],
                 [type |-> "Other", parent |-> 104, lineno |-> 4, nargs |-> 0, nvalues |-> 0],
                 [type |-> "Other", parent |-> 107, lineno |-> 4, nargs |-> 0, nvalues |-> 0],
                 [type |-> "Other", parent |-> 152, lineno |-> 0, nargs |-> 0, nvalues |-> 0],
                 [type |-> "Other", parent |-> 107, lineno |-> 4, nargs |-> 0, nvalues |-> 0],
                 [type |-> "Other", parent |-> 110, lineno |-> 4, nargs |-> 0, nvalues |-> 0],
                 [type |-> "Other", parent |-> 152, lineno |-> 0, nargs |-> 0, nvalues |-> 0],
                 [type |-> "Other", parent |-> 110, lineno |-> 4, nargs |-> 0, nvalues |-> 0],
                 [type |-> "Other", parent |-> 113, lineno |-> 4, nargs |-> 0, nvalues |-> 0],
                 [type |-> "Other", parent |-> 152, lineno |-> 0, nargs |-> 0, nvalues |-> 0],
                 [type |-> "Other", parent |-> 113, lineno |-> 4, nargs |-> 0, nvalues |-> 0],
                 [type |-> "Other", parent |-> 116, lineno |-> 4, nargs |-> 0, nvalues |-> 0],
                 [type |-> "Other", parent |-> 152, lineno |-> 0, nargs |-> 0, nvalues |-> 0],
                 [type |-> "Other", parent |-> 116, lineno |-> 4, nargs |-> 0, nvalues |-> 0],
                 [type |-> "Other", parent |-> 119, lineno |-> 4, nargs |-> 0, nvalues |-> 0],
                 [type |-> "Other", parent |-> 152, lineno |-> 0, nargs |-> 0, nvalues |-> 0],
                 [type |-> "Other", parent |-> 119, lineno |-> 4, nargs |-> 0, nvalues |-> 0],
                 [type |-> "Other", parent |-> 122, lineno |-> 4, nargs |-> 0, nvalues |-> 0],
                 [type |-> "Other", parent |-> 152, lineno |-> 0, nargs |-> 0, nvalues |-> 0],
                 [type |-> "Other", parent |-> 122, lineno |-> 4, nargs |-> 0, nvalues |-> 0],
                 [type |-> "Other", parent |-> 125, lineno |-> 4, nargs |-> 0, nvalues |-> 0],
                 [type |-> "Other", parent |-> 152, lineno |-> 0, nargs |-> 0, nvalues |-> 0],
                 [type |-> "Other", parent |-> 125, lineno |-> 4, nargs |-> 0, nvalues |-> 0],
                 [type |-> "Other", parent |-> 128, lineno |-> 4, nargs |-> 0, nvalues |-> 0],
                 [type |-> "Other", parent |-> 152, lineno |-> 0, nargs |-> 0, nvalues |-> 0],
                 [type |-> "Other", parent |-> 128, lineno |-> 4, nargs |-> 0, nvalues |-> 0],
                 [type |-> "Other", parent |-> 131, lineno |-> 4, nargs |-> 0, nvalues |-> 0],
                 [type |-> "Other", parent |-> 152, lineno |-> 0, nargs |-> 0, nvalues |-> 0],
                 [type |-> "Other", parent |-> 131, lineno |-> 4, nargs |-> 0, nvalues |-> 0],
                 [type |-> "Other", parent |-> 134, lineno |-> 4, nargs |-> 0, nvalues |-> 0],
                 [type |-> "Other", parent |-> 152, lineno |-> 0, nargs |-> 0, nvalues |-> 0],
                 [type |-> "Other", parent |-> 134, lineno |-> 4, nargs |-> 0, nvalues |-> 0],
                 [type |-> "Other", parent |-> 137, lineno |-> 4, nargs |-> 0, nvalues |-> 0],
                 [type |-> "Other", parent |-> 152, lineno |-> 0, nargs |-> 0, nvalues |-> 0],
                 [type |-> "Other", parent |-> 137, lineno |-> 4, nargs |-> 0, nvalues |-> 0],
                 [type |-> "Other", parent |-> 140, lineno |-> 4, nargs |-> 0, nvalues |-> 0],
                 [type |-> "Other", parent |-> 152, lineno |-> 0, nargs |-> 0, nvalues |-> 0],
                 [type |-> "Other", parent |-> 140, lineno |-> 4, nargs |-> 0, nvalues |-> 0],
                 [type |-> "Other", parent |-> 143, lineno |-> 4, nargs |-> 0, nvalues |-> 0],
                 [type |-> "Other", parent |-> 152, lineno |-> 0, nargs |-> 0, nvalues |-> 0],
                 [type |-> "Other", parent |-> 143, lineno |-> 4, nargs |-> 0, nvalues |-> 0],
                 [type |-> "Other", parent |-> 146, lineno |-> 4, nargs |-> 0, nvalues |-> 0],
                 [type |-> "Other", parent |-> 152, lineno |-> 0, nargs |-> 0, nvalues |-> 0],
                 [type |-> "Other", parent |-> 146, lineno |-> 4, nargs |-> 0, nvalues |-> 0],
                 [type |-> "Other", parent |-> 149, lineno |-> 4, nargs |-> 0, nvalues |-> 0],
                 [type |-> "Other", parent |-> 152, lineno |-> 0, nargs |-> 0, nvalues |-> 0],
                 [type |-> "Other", parent |-> 149, lineno |-> 4, nargs |-> 0, nvalues |-> 0],
                 [type |-> "Other", parent |-> 152, lineno |-> 4, nargs |-> 0, nvalues |-> 0],
                 [type |-> "Other", parent |-> 152, lineno |-> 0, nargs |-> 0, nvalues |-> 0],
                 [type |-> "Other", parent |-> 152, lineno |-> 4, nargs |-> 0, nvalues |-> 0]>>]],
      perf_py |-> [name |-> "loop.py", basename |-> "loop.py", ext |-> ".py", dirs |-> <<>>, dirglobs |-> <<>>, globs |-> {}, mime |-> "text",
            readable |-> TRUE, null_byte |-> FALSE, size |-> 54, vanish |-> "never",
            lines |-> <<"L13", "L14", "L15", "L2">>,
            nolog |-> {}, digest |-> "ea3dbe83",
            deps |-> [direct |-> <<>>, dev |-> <<>>, optional |-> <<>>, raised |-> FALSE],
            bandit |-> [status |-> "uncaught", items |-> <<>>],
            ansible_lint |-> [status |-> "ok", items |-> <<>>],
            yamllint |-> [status |-> "ok", items |-> <<>>],
            ast |-> [ok |-> TRUE, error |-> "none", lineno |-> 0,
                     nodes |-> <<[type |-> "Other", parent |-> 0, lineno |-> 0, nargs |-> 0, nvalues |-> 0],
                 [type |-> "For", parent |-> 1, lineno |-> 1, nargs |-> 0, nvalues |-> 0],
                 [type |-> "For", parent |-> 1, lineno |-> 2, nargs |-> 0, nvalues |-> 0],
                 [type |-> "Other", parent |-> 2, lineno |-> 1, nargs |-> 0, nvalues |-> 0],
                 [type |-> "Other", parent |-> 2, lineno |-> 1, nargs |-> 0, nvalues |-> 0],
                 [type |-> "Other", parent |-> 2, lineno |-> 1, nargs |-> 0, nvalues |-> 0],
                 [type |-> "Other", parent |-> 3, lineno |-> 2, nargs |-> 0, nvalues |-> 0],
                 [type |-> "Other", parent |-> 3, lineno |-> 2, nargs |-> 0, nvalues |-> 0],
                 [type |-> "Other", parent |-> 3, lineno |-> 2, nargs |-> 0, nvalues |-> 0],
                 [type |-> "Other", parent |-> 12, lineno |-> 0, nargs |-> 0, nvalues |-> 0],
                 [type |-> "Other", parent |-> 22, lineno |-> 0, nargs |-> 0, nvalues |-> 0],
                 [type |-> "Other", parent |-> 6, lineno |-> 1, nargs |-> 0, nvalues |-> 0],
                 [type |-> "Other", parent |-> 6, lineno |-> 0, nargs |-> 0, nvalues |-> 0],
                 [type |-> "Other", parent |-> 6, lineno |-> 1, nargs |-> 0, nvalues |-> 0],
                 [type |-> "Other", parent |-> 12, lineno |-> 0, nargs |-> 0, nvalues |-> 0],
                 [type |-> "Other", parent |-> 22, lineno |-> 0, nargs |-> 0, nvalues |-> 0],
                 [type |-> "Other", parent |-> 9, lineno |-> 2, nargs |-> 0, nvalues |-> 0],
                 [type |-> "Other", parent |-> 12, lineno |-> 0, nargs |-> 0, nvalues |-> 0],
                 [type |-> "Other", parent |-> 22, lineno |-> 0, nargs |-> 0, nvalues |-> 0],
                 [type |-> "Other", parent |-> 17, lineno |-> 2, nargs |-> 0, nvalues |-> 0],
                 [type |-> "Other", parent |-> 17, lineno |-> 2, nargs |-> 0, nvalues |-> 0],
                 [type |-> "Other", parent |-> 20, lineno |-> 2, nargs |-> 0, nvalues |-> 0],
                 [type |-> "Other", parent |-> 22, lineno |-> 0, nargs |-> 0, nvalues |-> 0],
                 [type |-> "Other", parent |-> 22, lineno |-> 0, nargs |-> 0, nvalues |-> 0],
                 [type |-> "Other", parent |-> 22, lineno |-> 0, nargs |-> 0, nvalues |-> 0]>>]],
      nested_py |-> [name |-> "nest.py", basename |-> "nest.py", ext |-> ".py", dirs |-> <<>>, dirglobs |-> <<>>, globs |-> {}, mime |-> "text",
            readable |-> TRUE, null_byte |-> FALSE, size |-> 117, vanish |-> "never",
            lines |-> <<"L16", "L17", "L18", "L19", "L20", "L21", "L22", "L2">>,
            nolog |-> {}, digest |-> "4f901aa2",
            deps |-> [direct |-> <<>>, dev |-> <<>>, optional |-> <<>>, raised |-> FALSE],
            bandit |-> [status |-> "ok", items |-> <<>>],
            ansible_lint |-> [status |-> "ok", items |-> <<>>],
            yamllint |-> [status |-> "ok", items |-> <<>>],
            ast |-> [ok |-> TRUE, error |-> "none", lineno |-> 0,
                     nodes |-> <<[type |-> "Other", parent |-> 0, lineno |-> 0, nargs |-> 0, nvalues |-> 0],
                 [type |-> "FunctionDef", parent |-> 1, lineno |-> 1, nargs |-> 1, nvalues |-> 0],
                 [type |-> "Other", parent |-> 2, lineno |-> 0, nargs |-> 0, nvalues |-> 0],
                 [type |-> "FunctionDef", parent |-> 2, lineno |-> 2, nargs |-> 1, nvalues |-> 0],
                 [type |-> "For", parent |-> 2, lineno |-> 6, nargs |-> 0, nvalues |-> 0],
                 [type |-> "Other", parent |-> 3, lineno |-> 1, nargs |-> 0, nvalues |-> 0],
                 [type |-> "Other", parent |-> 4, lineno |-> 0, nargs |-> 0, nvalues |-> 0],
                 [type |-> "If", parent |-> 4, lineno |-> 3, nargs |-> 0, nvalues |-> 0],
                 [type |-> "Other", parent |-> 4, lineno |-> 5, nargs |-> 0, nvalues |-> 0],
                 [type |-> "Other", parent |-> 5, lineno |-> 6, nargs |-> 0, nvalues |-> 0],
                 [type |-> "Other", parent |-> 5, lineno |-> 6, nargs |-> 0, nvalues |-> 0],
                 [type |-> "Other", parent |-> 5, lineno |-> 7, nargs |-> 0, nvalues |-> 0],
                 [type |-> "Other", parent |-> 7, lineno |-> 2, nargs |-> 0, nvalues |-> 0],
                 [type |-> "Other", parent |-> 8, lineno |-> 3, nargs |-> 0, nvalues |-> 0],
                 [type |-> "Other", parent |-> 8, lineno |-> 4, nargs |-> 0, nvalues |-> 0],
                 [type |-> "Other", parent |-> 9, lineno |-> 5, nargs |-> 0, nvalues |-> 0],
                 [type |-> "Other", parent |-> 10, lineno |-> 0, nargs |-> 0, nvalues |-> 0],
                 [type |-> "Other", parent |-> 23, lineno |-> 0, nargs |-> 0, nvalues |-> 0],
                 [type |-> "Other", parent |-> 12, lineno |-> 7, nargs |-> 0, nvalues |-> 0],
                 [type |-> "Other", parent |-> 23, lineno |-> 0, nargs |-> 0, nvalues |-> 0],
                 [type |-> "Other", parent |-> 15, lineno |-> 4, nargs |-> 0, nvalues |-> 0],
                 [type |-> "Other", parent |-> 19, lineno |-> 7, nargs |-> 0, nvalues |-> 0],
                 [type |-> "Other", parent |-> 19, lineno |-> 7, nargs |-> 0, nvalues |-> 0],
                 [type |-> "Other", parent |-> 23, lineno |-> 0, nargs |-> 0, nvalues |-> 0],
                 [type |-> "Other", parent |-> 23, lineno |-> 0, nargs |-> 0, nvalues |-> 0]>>]],
      var9_js |-> [name |-> "legacy.js", basename |-> "legacy.js", ext |-> ".js", dirs |-> <<>>, dirglobs |-> <<>>, globs |-> {}, mime |-> "text",
            readable |-> TRUE, null_byte |-> FALSE, size |-> 98, vanish |-> "never",
            lines |-> Rep("L23", 9),
            nolog |-> {}, digest |-> "b16f31f0",
            deps |-> [direct |-> <<>>, dev |-> <<>>, optional |-> <<>>, raised |-> FALSE],
            bandit |-> [status |-> "ok", items |-> <<>>],
            ansible_lint |-> [status |-> "ok", items |-> <<>>],
            yamllint |-> [status |-> "ok", items |-> <<>>],
            ast |-> [ok |-> TRUE, error |-> "none", lineno |-> 0,
                     nodes |-> <<>>]],
      branchy_js |-> [name |-> "branchy.js", basename |-> "branchy.js", ext |-> ".js", dirs |-> <<>>, dirglobs |-> <<>>, globs |-> {}, mime |-> "text",
            readable |-> TRUE, null_byte |-> FALSE, size |-> 191, vanish |-> "never",
            lines |-> Rep("L24", 12),
            nolog |-> {}, digest |-> "81de7987",
            deps |-> [direct |-> <<>>, dev |-> <<>>, optional |-> <<>>, raised |-> FALSE],
            bandit |-> [status |-> "ok", items |-> <<>>],
            ansible_lint |-> [status |-> "ok", items |-> <<>>],
            yamllint |-> [status |-> "ok", items |-> <<>>],
            ast |-> [ok |-> TRUE, error |-> "none", lineno |-> 0,
                     nodes |-> <<>>]],
      complex_js |-> [name |-> "complex.js", basename |-> "complex.js", ext |-> ".js", dirs |-> <<>>, dirglobs |-> <<>>, globs |-> {}, mime |-> "text",
            readable |-> TRUE, null_byte |-> FALSE, size |-> 255, vanish |-> "never",
            lines |-> Rep("L24", 16),
            nolog |-> {}, digest |-> "1941b3a6",
            deps |-> [direct |-> <<>>, dev |-> <<>>, optional |-> <<>>, raised |-> FALSE],
            bandit |-> [status |-> "ok", items |-> <<>>],
            ansible_lint |-> [status |-> "ok", items |-> <<>>],
            yamllint |-> [status |-> "ok", items |-> <<>>],
            ast |-> [ok |-> TRUE, error |-> "none", lineno |-> 0,
                     nodes |-> <<>>]],
      mixed_js |-> [name |-> "app.js", basename |-> "app.js", ext |-> ".js", dirs |-> <<>>, dirglobs |-> <<>>, globs |-> {}, mime |-> "text",
            readable |-> TRUE, null_byte |-> FALSE, size |-> 145, vanish |-> "never",
            lines |-> <<"L25", "L26", "L27", "L28", "L29", "L30", "L2">>,
            nolog |-> {}, digest |-> "ac13cab0",
            deps |-> [direct |-> <<>>, dev |-> <<>>, optional |-> <<>>, raised |-> FALSE],
            bandit |-> [status |-> "ok", items |-> <<>>],
            ansible_lint |-> [status |-> "ok", items |-> <<>>],
            yamllint |-> [status |-> "ok", items |-> <<>>],
            ast |-> [ok |-> TRUE, error |-> "none", lineno |-> 0,
                     nodes |-> <<>>]],
      mixed_ts |-> [name |-> "view.ts", basename |-> "view.ts", ext |-> ".ts", dirs |-> <<>>, dirglobs |-> <<>>, globs |-> {}, mime |-> "text",
            readable |-> TRUE, null_byte |-> FALSE, size |-> 44, vanish |-> "never",
            lines |-> <<"L31", "L32", "L2">>,
            nolog |-> {}, digest |-> "75965f73",
            deps |-> [direct |-> <<>>, dev |-> <<>>, optional |-> <<>>, raised |-> FALSE],
            bandit |-> [status |-> "ok", items |-> <<>>],
            ansible_lint |-> [status |-> "ok", items |-> <<>>],
            yamllint |-> [status |-> "ok", items |-> <<>>],
            ast |-> [ok |-> TRUE, error |-> "none", lineno |-> 0,
                     nodes |-> <<>>]],
      sys_java |-> [name |-> "Main.java", basename |-> "main.java", ext |-> ".java", dirs |-> <<>>, dirglobs |-> <<>>, globs |-> {}, mime |-> "text",
            readable |-> TRUE, null_byte |-> FALSE, size |-> 77, vanish |-> "never",
            lines |-> <<"L33", "L34", "L35", "L2">>,
            nolog |-> {}, digest |-> "0a957bea",
            deps |-> [direct |-> <<>>, dev |-> <<>>, optional |-> <<>>, raised |-> FALSE],
            bandit |-> [status |-> "ok", items |-> <<>>],
            ansible_lint |-> [status |-> "ok", items |-> <<>>],
            yamllint |-> [status |-> "ok", items |-> <<>>],
            ast |-> [ok |-> TRUE, error |-> "none", lineno |-> 0,
                     nodes |-> <<>>]],
      inj_sql |-> [name |-> "q.sql", basename |-> "q.sql", ext |-> ".sql", dirs |-> <<>>, dirglobs |-> <<>>, globs |-> {}, mime |-> "other",
            readable |-> TRUE, null_byte |-> FALSE, size |-> 50, vanish |-> "never",
            lines |-> <<"L36", "L37", "L38", "L2">>,
            nolog |-> {}, digest |-> "e9dabdff",
            deps |-> [direct |-> <<>>, dev |-> <<>>, optional |-> <<>>, raised |-> FALSE],
            bandit |-> [status |-> "ok", items |-> <<>>],
            ansible_lint |-> [status |-> "ok", items |-> <<>>],
            yamllint |-> [status |-> "ok", items |-> <<>>],
            ast |-> [ok |-> TRUE, error |-> "none", lineno |-> 0,
                     nodes |-> <<>>]],
      site_yml |-> [name |-> "site.yml", basename |-> "site.yml", ext |-> ".yml", dirs |-> <<>>, dirglobs |-> <<>>, globs |-> {}, mime |-> "none",
            readable |-> TRUE, null_byte |-> FALSE, size |-> 126, vanish |-> "never",
            lines |-> <<"L39", "L40", "L41", "L42", "L43", "L44", "L45", "L2">>,
            nolog |-> {}, digest |-> "0f2b0bb3",
            deps |-> [direct |-> <<>>, dev |-> <<>>, optional |-> <<>>, raised |-> FALSE],
            bandit |-> [status |-> "ok", items |-> <<>>],
            ansible_lint |-> [status |-> "ok", items |-> <<[id |-> "deprecated", level |-> "very_high", line |-> 5], [id |-> "risky", level |-> "warning", line |-> 4]>>],
            yamllint |-> [status |-> "caught", items |-> <<>>],
            ast |-> [ok |-> TRUE, error |-> "none", lineno |-> 0,
                     nodes |-> <<>>]],
      role_yml |-> [name |-> "deploy.yml", basename |-> "deploy.yml", ext |-> ".yml", dirs |-> <<>>, dirglobs |-> <<>>, globs |-> {}, mime |-> "none",
            readable |-> TRUE, null_byte |-> FALSE, size |-> 322, vanish |-> "never",
            lines |-> <<"L46", "L47", "L48", "L49", "L50", "L51", "L52", "L53", "L54", "L55", "L56", "L57", "L58", "L59", "L60", "L61", "L62", "L63", "L64", "L65", "L2">>,
            nolog |-> {}, digest |-> "1b91df22",
            deps |-> [direct |-> <<>>, dev |-> <<>>, optional |-> <<>>, raised |-> FALSE],
            bandit |-> [status |-> "ok", items |-> <<>>],
            ansible_lint |-> [status |-> "text", items |-> <<[id |-> "", level |-> "", line |-> 0], [id |-> "", level |-> "", line |-> 0]>>],
            yamllint |-> [status |-> "uncaught", items |-> <<>>],
            ast |-> [ok |-> TRUE, error |-> "none", lineno |-> 0,
                     nodes |-> <<>>]],
      plain_yml |-> [name |-> "config.yaml", basename |-> "config.yaml", ext |-> ".yaml", dirs |-> <<>>, dirglobs |-> <<>>, globs |-> {}, mime |-> "none",
            readable |-> TRUE, null_byte |-> FALSE, size |-> 38, vanish |-> "never",
            lines |-> <<"L66", "L67", "L68", "L2">>,
            nolog |-> {}, digest |-> "0ef7973b",
            deps |-> [direct |-> <<>>, dev |-> <<>>, optional |-> <<>>, raised |-> FALSE],
            bandit |-> [status |-> "ok", items |-> <<>>],
            ansible_lint |-> [status |-> "ok", items |-> <<>>],
            yamllint |-> [status |-> "ok", items |-> <<[id |-> "syntax", level |-> "error", line |-> 2], [id |-> "style", level |-> "info", line |-> 3]>>],
            ast |-> [ok |-> TRUE, error |-> "none", lineno |-> 0,
                     nodes |-> <<>>]],
      logo_png |-> [name |-> "logo.png", basename |-> "logo.png", ext |-> ".png", dirs |-> <<>>, dirglobs |-> <<>>, globs |-> {}, mime |-> "other",
            readable |-> TRUE, null_byte |-> FALSE, size |-> 3, vanish |-> "never",
            lines |-> <<"L69">>,
            nolog |-> {}, digest |-> "79612083",
            deps |-> [direct |-> <<>>, dev |-> <<>>, optional |-> <<>>, raised |-> FALSE],
            bandit |-> [status |-> "ok", items |-> <<>>],
            ansible_lint |-> [status |-> "ok", items |-> <<>>],
            yamllint |-> [status |-> "ok", items |-> <<>>],
            ast |-> [ok |-> TRUE, error |-> "none", lineno |-> 0,
                     nodes |-> <<>>]],
      nul_py |-> [name |-> "blob.py", basename |-> "blob.py", ext |-> ".py", dirs |-> <<>>, dirglobs |-> <<>>, globs |-> {}, mime |-> "text",
            readable |-> TRUE, null_byte |-> TRUE, size |-> 7, vanish |-> "never",
            lines |-> <<"L70", "L2">>,
            nolog |-> {}, digest |-> "4072cc41",
            deps |-> [direct |-> <<>>, dev |-> <<>>, optional |-> <<>>, raised |-> FALSE],
            bandit |-> [status |-> "ok", items |-> <<>>],
            ansible_lint |-> [status |-> "ok", items |-> <<>>],
            yamllint |-> [status |-> "ok", items |-> <<>>],
            ast |-> [ok |-> FALSE, error |-> "SyntaxError", lineno |-> 0,
                     nodes |-> <<>>]],
      notes_txt |-> [name |-> "notes.txt", basename |-> "notes.txt", ext |-> ".txt", dirs |-> <<>>, dirglobs |-> <<>>, globs |-> {}, mime |-> "text",
            readable |-> TRUE, null_byte |-> FALSE, size |-> 23, vanish |-> "never",
            lines |-> <<"L5", "L2">>,
            nolog |-> {}, digest |-> "2001b825",
            deps |-> [direct |-> <<>>, dev |-> <<>>, optional |-> <<>>, raised |-> FALSE],
            bandit |-> [status |-> "ok", items |-> <<>>],
            ansible_lint |-> [status |-> "ok", items |-> <<>>],
            yamllint |-> [status |-> "ok", items |-> <<>>],
            ast |-> [ok |-> TRUE, error |-> "none", lineno |-> 0,
                     nodes |-> <<>>]],
      data_json |-> [name |-> "data.json", basename |-> "data.json", ext |-> ".json", dirs |-> <<>>, dirglobs |-> <<>>, globs |-> {}, mime |-> "other",
            readable |-> TRUE, null_byte |-> FALSE, size |-> 26, vanish |-> "never",
            lines |-> <<"L71", "L2">>,
            nolog |-> {}, digest |-> "d5666b88",
            deps |-> [direct |-> <<>>, dev |-> <<>>, optional |-> <<>>, raised |-> FALSE],
            bandit |-> [status |-> "ok", items |-> <<>>],
            ansible_lint |-> [status |-> "ok", items |-> <<>>],
            yamllint |-> [status |-> "ok", items |-> <<>>],
            ast |-> [ok |-> TRUE, error |-> "none", lineno |-> 0,
                     nodes |-> <<>>]],
      huge_py |-> [name |-> "huge.py", basename |-> "huge.py", ext |-> ".py", dirs |-> <<>>, dirglobs |-> <<>>, globs |-> {}, mime |-> "text",
            readable |-> TRUE, null_byte |-> FALSE, size |-> 1048577, vanish |-> "never",
            lines |-> <<"L72", "L2">>,
            nolog |-> {}, digest |-> "9e26bf36",
            deps |-> [direct |-> <<>>, dev |-> <<>>, optional |-> <<>>, raised |-> FALSE],
            bandit |-> [status |-> "ok", items |-> <<>>],
            ansible_lint |-> [status |-> "ok", items |-> <<>>],
            yamllint |-> [status |-> "ok", items |-> <<>>],
            ast |-> [ok |-> TRUE, error |-> "none", lineno |-> 0,
                     nodes |-> <<[type |-> "Other", parent |-> 0, lineno |-> 0, nargs |-> 0, nvalues |-> 0],
                 [type |-> "Other", parent |-> 1, lineno |-> 1, nargs |-> 0, nvalues |-> 0],
                 [type |-> "Other", parent |-> 2, lineno |-> 1, nargs |-> 0, nvalues |-> 0],
                 [type |-> "Other", parent |-> 2, lineno |-> 1, nargs |-> 0, nvalues |-> 0],
                 [type |-> "Other", parent |-> 3, lineno |-> 0, nargs |-> 0, nvalues |-> 0]>>]],
      limit_py |-> [name |-> "limit.py", basename |-> "limit.py", ext |-> ".py", dirs |-> <<>>, dirglobs |-> <<>>, globs |-> {}, mime |-> "text",
            readable |-> TRUE, null_byte |-> FALSE, size |-> 1048576, vanish |-> "never",
            lines |-> <<"L72", "L2">>,
            nolog |-> {}, digest |-> "9e26bf36",
            deps |-> [direct |-> <<>>, dev |-> <<>>, optional |-> <<>>, raised |-> FALSE],
            bandit |-> [status |-> "ok", items |-> <<>>],
            ansible_lint |-> [status |-> "ok", items |-> <<>>],
            yamllint |-> [status |-> "ok", items |-> <<>>],
            ast |-> [ok |-> TRUE, error |-> "none", lineno |-> 0,
                     nodes |-> <<[type |-> "Other", parent |-> 0, lineno |-> 0, nargs |-> 0, nvalues |-> 0],
                 [type |-> "Other", parent |-> 1, lineno |-> 1, nargs |-> 0, nvalues |-> 0],
                 [type |-> "Other", parent |-> 2, lineno |-> 1, nargs |-> 0, nvalues |-> 0],
                 [type |-> "Other", parent |-> 2, lineno |-> 1, nargs |-> 0, nvalues |-> 0],
                 [type |-> "Other", parent |-> 3, lineno |-> 0, nargs |-> 0, nvalues |-> 0]>>]],
      gone_py |-> [name |-> "gone.py", basename |-> "gone.py", ext |-> ".py", dirs |-> <<>>, dirglobs |-> <<>>, globs |-> {}, mime |-> "text",
            readable |-> TRUE, null_byte |-> FALSE, size |-> 6, vanish |-> "before_size_check",
            lines |-> <<"L72", "L2">>,
            nolog |-> {}, digest |-> "9e26bf36",
            deps |-> [direct |-> <<>>, dev |-> <<>>, optional |-> <<>>, raised |-> FALSE],
            bandit |-> [status |-> "ok", items |-> <<>>],
            ansible_lint |-> [status |-> "ok", items |-> <<>>],
            yamllint |-> [status |-> "ok", items |-> <<>>],
            ast |-> [ok |-> TRUE, error |-> "none", lineno |-> 0,
                     nodes |-> <<[type |-> "Other", parent |-> 0, lineno |-> 0, nargs |-> 0, nvalues |-> 0],
                 [type |-> "Other", parent |-> 1, lineno |-> 1, nargs |-> 0, nvalues |-> 0],
                 [type |-> "Other", parent |-> 2, lineno |-> 1, nargs |-> 0, nvalues |-> 0],
                 [type |-> "Other", parent |-> 2, lineno |-> 1, nargs |-> 0, nvalues |-> 0],
                 [type |-> "Other", parent |-> 3, lineno |-> 0, nargs |-> 0, nvalues |-> 0]>>]],
      lost_py |-> [name |-> "lost.py", basename |-> "lost.py", ext |-> ".py", dirs |-> <<>>, dirglobs |-> <<>>, globs |-> {}, mime |-> "text",
            readable |-> TRUE, null_byte |-> FALSE, size |-> 6, vanish |-> "during_analysis",
            lines |-> <<"L72", "L2">>,
            nolog |-> {}, digest |-> "9e26bf36",
            deps |-> [direct |-> <<>>, dev |-> <<>>, optional |-> <<>>, raised |-> FALSE],
            bandit |-> [status |-> "ok", items |-> <<>>],
            ansible_lint |-> [status |-> "ok", items |-> <<>>],
            yamllint |-> [status |-> "ok", items |-> <<>>],
            ast |-> [ok |-> TRUE, error |-> "none", lineno |-> 0,
                     nodes |-> <<[type |-> "Other", parent |-> 0, lineno |-> 0, nargs |-> 0, nvalues |-> 0],
                 [type |-> "Other", parent |-> 1, lineno |-> 1, nargs |-> 0, nvalues |-> 0],
                 [type |-> "Other", parent |-> 2, lineno |-> 1, nargs |-> 0, nvalues |-> 0],
                 [type |-> "Other", parent |-> 2, lineno |-> 1, nargs |-> 0, nvalues |-> 0],
                 [type |-> "Other", parent |-> 3, lineno |-> 0, nargs |-> 0, nvalues |-> 0]>>]],
      locked_py |-> [name |-> "locked.py", basename |-> "locked.py", ext |-> ".py", dirs |-> <<>>, dirglobs |-> <<>>, globs |-> {}, mime |-> "text",
            readable |-> FALSE, null_byte |-> FALSE, size |-> 6, vanish |-> "never",
            lines |-> <<"L72", "L2">>,
            nolog |-> {}, digest |-> "9e26bf36",
            deps |-> [direct |-> <<>>, dev |-> <<>>, optional |-> <<>>, raised |-> FALSE],
            bandit |-> [status |-> "ok", items |-> <<>>],
            ansible_lint |-> [status |-> "ok", items |-> <<>>],
            yamllint |-> [status |-> "ok", items |-> <<>>],
            ast |-> [ok |-> TRUE, error |-> "none", lineno |-> 0,
                     nodes |-> <<[type |-> "Other", parent |-> 0, lineno |-> 0, nargs |-> 0, nvalues |-> 0],
                 [type |-> "Other", parent |-> 1, lineno |-> 1, nargs |-> 0, nvalues |-> 0],
                 [type |-> "Other", parent |-> 2, lineno |-> 1, nargs |-> 0, nvalues |-> 0],
                 [type |-> "Other", parent |-> 2, lineno |-> 1, nargs |-> 0, nvalues |-> 0],
                 [type |-> "Other", parent |-> 3, lineno |-> 0, nargs |-> 0, nvalues |-> 0]>>]],
      noext |-> [name |-> "Makefile", basename |-> "makefile", ext |-> "", dirs |-> <<>>, dirglobs |-> <<>>, globs |-> {}, mime |-> "none",
            readable |-> TRUE, null_byte |-> FALSE, size |-> 5, vanish |-> "never",
            lines |-> <<"L73", "L2">>,
            nolog |-> {}, digest |-> "dadd6bd5",
            deps |-> [direct |-> <<>>, dev |-> <<>>, optional |-> <<>>, raised |-> FALSE],
            bandit |-> [status |-> "ok", items |-> <<>>],
            ansible_lint |-> [status |-> "ok", items |-> <<>>],
            yamllint |-> [status |-> "ok", items |-> <<>>],
            ast |-> [ok |-> TRUE, error |-> "none", lineno |-> 0,
                     nodes |-> <<>>]],
      upper_py |-> [name |-> "Tool.PY", basename |-> "tool.py", ext |-> ".py", dirs |-> <<>>, dirglobs |-> <<>>, globs |-> {}, mime |-> "text",
            readable |-> TRUE, null_byte |-> FALSE, size |-> 25, vanish |-> "never",
            lines |-> <<"L74", "L75", "L2">>,
            nolog |-> {}, digest |-> "93c147a1",
            deps |-> [direct |-> <<>>, dev |-> <<>>, optional |-> <<>>, raised |-> FALSE],
            bandit |-> [status |-> "ok", items |-> <<[id |-> "B102", level |-> "medium", line |-> 1], [id |-> "B605", level |-> "high", line |-> 2], [id |-> "B000", level |-> "undefined", line |-> 0]>>],
            ansible_lint |-> [status |-> "ok", items |-> <<>>],
            yamllint |-> [status |-> "ok", items |-> <<>>],
            ast |-> [ok |-> TRUE, error |-> "none", lineno |-> 0,
                     nodes |-> <<[type |-> "Other", parent |-> 0, lineno |-> 0, nargs |-> 0, nvalues |-> 0],
                 [type |-> "Other", parent |-> 1, lineno |-> 1, nargs |-> 0, nvalues |-> 0],
                 [type |-> "Other", parent |-> 1, lineno |-> 2, nargs |-> 0, nvalues |-> 0],
                 [type |-> "Other", parent |-> 2, lineno |-> 1, nargs |-> 0, nvalues |-> 0],
                 [type |-> "Other", parent |-> 3, lineno |-> 2, nargs |-> 0, nvalues |-> 0],
                 [type |-> "Other", parent |-> 4, lineno |-> 1, nargs |-> 0, nvalues |-> 0],
                 [type |-> "Other", parent |-> 4, lineno |-> 1, nargs |-> 0, nvalues |-> 0],
                 [type |-> "Other", parent |-> 5, lineno |-> 2, nargs |-> 0, nvalues |-> 0],
                 [type |-> "Other", parent |-> 5, lineno |-> 2, nargs |-> 0, nvalues |-> 0],
                 [type |-> "Other", parent |-> 12, lineno |-> 0, nargs |-> 0, nvalues |-> 0],
                 [type |-> "Other", parent |-> 12, lineno |-> 0, nargs |-> 0, nvalues |-> 0],
                 [type |-> "Other", parent |-> 8, lineno |-> 2, nargs |-> 0, nvalues |-> 0],
                 [type |-> "Other", parent |-> 12, lineno |-> 0, nargs |-> 0, nvalues |-> 0],
                 [type |-> "Other", parent |-> 12, lineno |-> 0, nargs |-> 0, nvalues |-> 0],
                 [type |-> "Other", parent |-> 12, lineno |-> 0, nargs |-> 0, nvalues |-> 0]>>]],
      faded_js |-> [name |-> "faded.js", basename |-> "faded.js", ext |-> ".js", dirs |-> <<>>, dirglobs |-> <<>>, globs |-> {}, mime |-> "text",
            readable |-> TRUE, null_byte |-> FALSE, size |-> 17, vanish |-> "after_metrics",
            lines |-> <<"L76", "L2">>,
            nolog |-> {}, digest |-> "046cc363",
            deps |-> [direct |-> <<>>, dev |-> <<>>, optional |-> <<>>, raised |-> FALSE],
            bandit |-> [status |-> "ok", items |-> <<>>],
            ansible_lint |-> [status |-> "ok", items |-> <<>>],
            yamllint |-> [status |-> "ok", items |-> <<>>],
            ast |-> [ok |-> TRUE, error |-> "none", lineno |-> 0,
                     nodes |-> <<>>]],
      faded_yml |-> [name |-> "main.yml", basename |-> "main.yml", ext |-> ".yml", dirs |-> <<>>, dirglobs |-> <<>>, globs |-> {}, mime |-> "none",
            readable |-> TRUE, null_byte |-> FALSE, size |-> 29, vanish |-> "after_metrics",
            lines |-> <<"L39", "L77", "L2">>,
            nolog |-> {}, digest |-> "9d4b6de6",
            deps |-> [direct |-> <<>>, dev |-> <<>>, optional |-> <<>>, raised |-> FALSE],
            bandit |-> [status |-> "ok", items |-> <<>>],
            ansible_lint |-> [status |-> "ok", items |-> <<>>],
            yamllint |-> [status |-> "ok", items |-> <<>>],
            ast |-> [ok |-> TRUE, error |-> "none", lineno |-> 0,
                     nodes |-> <<>>]],
      early_py |-> [name |-> "early.py", basename |-> "early.py", ext |-> ".py", dirs |-> <<>>, dirglobs |-> <<>>, globs |-> {}, mime |-> "text",
            readable |-> TRUE, null_byte |-> FALSE, size |-> 6, vanish |-> "before_analysis",
            lines |-> <<"L72", "L2">>,
            nolog |-> {}, digest |-> "9e26bf36",
            deps |-> [direct |-> <<>>, dev |-> <<>>, optional |-> <<>>, raised |-> FALSE],
            bandit |-> [status |-> "ok", items |-> <<>>],
            ansible_lint |-> [status |-> "ok", items |-> <<>>],
            yamllint |-> [status |-> "ok", items |-> <<>>],
            ast |-> [ok |-> TRUE, error |-> "none", lineno |-> 0,
                     nodes |-> <<[type |-> "Other", parent |-> 0, lineno |-> 0, nargs |-> 0, nvalues |-> 0],
                 [type |-> "Other", parent |-> 1, lineno |-> 1, nargs |-> 0, nvalues |-> 0],
                 [type |-> "Other", parent |-> 2, lineno |-> 1, nargs |-> 0, nvalues |-> 0],
                 [type |-> "Other", parent |-> 2, lineno |-> 1, nargs |-> 0, nvalues |-> 0],
                 [type |-> "Other", parent |-> 3, lineno |-> 0, nargs |-> 0, nvalues |-> 0]>>]],
      chain_py |-> [name |-> "sum.py", basename |-> "sum.py", ext |-> ".py", dirs |-> <<>>, dirglobs |-> <<>>, globs |-> {}, mime |-> "text",
            readable |-> TRUE, null_byte |-> FALSE, size |-> 400006, vanish |-> "never",
            lines |-> <<"L78", "L2">>,
            nolog |-> {}, digest |-> "489fb32b",
            deps |-> [direct |-> <<>>, dev |-> <<>>, optional |-> <<>>, raised |-> FALSE],
            bandit |-> [status |-> "ok", items |-> <<>>],
            ansible_lint |-> [status |-> "ok", items |-> <<>>],
            yamllint |-> [status |-> "ok", items |-> <<>>],
            ast |-> [ok |-> FALSE, error |-> "RecursionError", lineno |-> 0,
                     nodes |-> <<>>]],
      tokens_go |-> [name |-> "tok.go", basename |-> "tok.go", ext |-> ".go", dirs |-> <<>>, dirglobs |-> <<>>, globs |-> {}, mime |-> "none",
            readable |-> TRUE, null_byte |-> FALSE, size |-> 114, vanish |-> "never",
            lines |-> Rep("L79", 6) \o <<"L2">>,
            nolog |-> {}, digest |-> "7ba64d1d",
            deps |-> [direct |-> <<>>, dev |-> <<>>, optional |-> <<>>, raised |-> FALSE],
            bandit |-> [status |-> "ok", items |-> <<>>],
            ansible_lint |-> [status |-> "ok", items |-> <<>>],
            yamllint |-> [status |-> "ok", items |-> <<>>],
            ast |-> [ok |-> TRUE, error |-> "none", lineno |-> 0,
                     nodes |-> <<>>]],
      five_go |-> [name |-> "five.go", basename |-> "five.go", ext |-> ".go", dirs |-> <<>>, dirglobs |-> <<>>, globs |-> {}, mime |-> "none",
            readable |-> TRUE, null_byte |-> FALSE, size |-> 95, vanish |-> "never",
            lines |-> Rep("L79", 5) \o <<"L2">>,
            nolog |-> {}, digest |-> "67425ad4",
            deps |-> [direct |-> <<>>, dev |-> <<>>, optional |-> <<>>, raised |-> FALSE],
            bandit |-> [status |-> "ok", items |-> <<>>],
            ansible_lint |-> [status |-> "ok", items |-> <<>>],
            yamllint |-> [status |-> "ok", items |-> <<>>],
            ast |-> [ok |-> TRUE, error |-> "none", lineno |-> 0,
                     nodes |-> <<>>]],
      broken_tool_py |-> [name |-> "half.py", basename |-> "half.py", ext |-> ".py", dirs |-> <<>>, dirglobs |-> <<>>, globs |-> {}, mime |-> "text",
            readable |-> TRUE, null_byte |-> FALSE, size |-> 20, vanish |-> "never",
            lines |-> <<"L80", "L81", "L2">>,
            nolog |-> {}, digest |-> "e388d96d",
            deps |-> [direct |-> <<>>, dev |-> <<>>, optional |-> <<>>, raised |-> FALSE],
            bandit |-> [status |-> "uncaught", items |-> <<>>],
            ansible_lint |-> [status |-> "ok", items |-> <<>>],
            yamllint |-> [status |-> "ok", items |-> <<>>],
            ast |-> [ok |-> FALSE, error |-> "SyntaxError", lineno |-> 1,
                     nodes |-> <<>>]],
      colon_js |-> [name |-> "conf.js", basename |-> "conf.js", ext |-> ".js", dirs |-> <<>>, dirglobs |-> <<>>, globs |-> {}, mime |-> "text",
            readable |-> TRUE, null_byte |-> FALSE, size |-> 35, vanish |-> "never",
            lines |-> <<"L82", "L83", "L4", "L2">>,
            nolog |-> {}, digest |-> "720b3b0e",
            deps |-> [direct |-> <<>>, dev |-> <<>>, optional |-> <<>>, raised |-> FALSE],
            bandit |-> [status |-> "ok", items |-> <<>>],
            ansible_lint |-> [status |-> "ok", items |-> <<>>],
            yamllint |-> [status |-> "ok", items |-> <<>>],
            ast |-> [ok |-> TRUE, error |-> "none", lineno |-> 0,
                     nodes |-> <<>>]],
      short_py |-> [name |-> "short.py", basename |-> "short.py", ext |-> ".py", dirs |-> <<>>, dirglobs |-> <<>>, globs |-> {}, mime |-> "text",
            readable |-> TRUE, null_byte |-> FALSE, size |-> 13, vanish |-> "never",
            lines |-> <<"L84", "L2">>,
            nolog |-> {}, digest |-> "34088d98",
            deps |-> [direct |-> <<>>, dev |-> <<>>, optional |-> <<>>, raised |-> FALSE],
            bandit |-> [status |-> "caught", items |-> <<>>],
            ansible_lint |-> [status |-> "ok", items |-> <<>>],
            yamllint |-> [status |-> "ok", items |-> <<>>],
            ast |-> [ok |-> TRUE, error |-> "none", lineno |-> 0,
                     nodes |-> <<[type |-> "Other", parent |-> 0, lineno |-> 0, nargs |-> 0, nvalues |-> 0],
                 [type |-> "Other", parent |-> 1, lineno |-> 1, nargs |-> 0, nvalues |-> 0],
                 [type |-> "Other", parent |-> 2, lineno |-> 1, nargs |-> 0, nvalues |-> 0],
                 [type |-> "Other", parent |-> 2, lineno |-> 1, nargs |-> 0, nvalues |-> 0],
                 [type |-> "Other", parent |-> 3, lineno |-> 0, nargs |-> 0, nvalues |-> 0]>>]],
      say_py |-> [name |-> "say.py", basename |-> "say.py", ext |-> ".py", dirs |-> <<>>, dirglobs |-> <<>>, globs |-> {}, mime |-> "text",
            readable |-> TRUE, null_byte |-> FALSE, size |-> 28, vanish |-> "never",
            lines |-> <<"L85", "L86", "L2">>,
            nolog |-> {}, digest |-> "ee704e42",
            deps |-> [direct |-> <<>>, dev |-> <<>>, optional |-> <<>>, raised |-> FALSE],
            bandit |-> [status |-> "ok", items |-> <<>>],
            ansible_lint |-> [status |-> "ok", items |-> <<>>],
            yamllint |-> [status |-> "ok", items |-> <<>>],
            ast |-> [ok |-> TRUE, error |-> "none", lineno |-> 0,
                     nodes |-> <<[type |-> "Other", parent |-> 0, lineno |-> 0, nargs |-> 0, nvalues |-> 0],
                 [type |-> "Other", parent |-> 1, lineno |-> 1, nargs |-> 0, nvalues |-> 0],
                 [type |-> "Other", parent |-> 1, lineno |-> 2, nargs |-> 0, nvalues |-> 0],
                 [type |-> "Other", parent |-> 2, lineno |-> 1, nargs |-> 0, nvalues |-> 0],
                 [type |-> "Other", parent |-> 3, lineno |-> 2, nargs |-> 0, nvalues |-> 0],
                 [type |-> "Other", parent |-> 4, lineno |-> 1, nargs |-> 0, nvalues |-> 0],
                 [type |-> "Other", parent |-> 4, lineno |-> 1, nargs |-> 0, nvalues |-> 0],
                 [type |-> "Other", parent |-> 5, lineno |-> 2, nargs |-> 0, nvalues |-> 0],
                 [type |-> "Other", parent |-> 5, lineno |-> 2, nargs |-> 0, nvalues |-> 0],
                 [type |-> "Other", parent |-> 11, lineno |-> 0, nargs |-> 0, nvalues |-> 0],
                 [type |-> "Other", parent |-> 8, lineno |-> 2, nargs |-> 0, nvalues |-> 0],
                 [type |-> "Other", parent |-> 11, lineno |-> 0, nargs |-> 0, nvalues |-> 0],
                 [type |-> "Other", parent |-> 11, lineno |-> 0, nargs |-> 0, nvalues |-> 0]>>]],
      defs_h |-> [name |-> "defs.h", basename |-> "defs.h", ext |-> ".h", dirs |-> <<>>, dirglobs |-> <<>>, globs |-> {}, mime |-> "text",
            readable |-> TRUE, null_byte |-> FALSE, size |-> 39, vanish |-> "never",
            lines |-> <<"L87", "L88", "L89", "L2">>,
            nolog |-> {}, digest |-> "8fc2876a",
            deps |-> [direct |-> <<>>, dev |-> <<>>, optional |-> <<>>, raised |-> FALSE],
            bandit |-> [status |-> "ok", items |-> <<>>],
            ansible_lint |-> [status |-> "ok", items |-> <<>>],
            yamllint |-> [status |-> "ok", items |-> <<>>],
            ast |-> [ok |-> TRUE, error |-> "none", lineno |-> 0,
                     nodes |-> <<>>]],
      pipfile |-> [name |-> "Pipfile", basename |-> "pipfile", ext |-> "", dirs |-> <<>>, dirglobs |-> <<>>, globs |-> {}, mime |-> "none",
            readable |-> TRUE, null_byte |-> FALSE, size |-> 51, vanish |-> "never",
            lines |-> <<"L90", "L91", "L92", "L93", "L2">>,
            nolog |-> {}, digest |-> "29fa5ff1",
            deps |-> [direct |-> <<"flask">>, dev |-> <<"pytest">>, optional |-> <<>>, raised |-> FALSE],
            bandit |-> [status |-> "ok", items |-> <<>>],
            ansible_lint |-> [status |-> "ok", items |-> <<>>],
            yamllint |-> [status |-> "ok", items |-> <<>>],
            ast |-> [ok |-> TRUE, error |-> "none", lineno |-> 0,
                     nodes |-> <<>>]],
      reqs_txt |-> [name |-> "requirements.txt", basename |-> "requirements.txt", ext |-> ".txt", dirs |-> <<>>, dirglobs |-> <<>>, globs |-> {}, mime |-> "text",
            readable |-> TRUE, null_byte |-> FALSE, size |-> 40, vanish |-> "never",
            lines |-> <<"L94", "L95", "L96", "L97", "L2">>,
            nolog |-> {}, digest |-> "1a81344f",
            deps |-> [direct |-> <<"requests", "flask", "flask">>, dev |-> <<>>, optional |-> <<>>, raised |-> FALSE],
            bandit |-> [status |-> "ok", items |-> <<>>],
            ansible_lint |-> [status |-> "ok", items |-> <<>>],
            yamllint |-> [status |-> "ok", items |-> <<>>],
            ast |-> [ok |-> TRUE, error |-> "none", lineno |-> 0,
                     nodes |-> <<>>]],
      reqs_dev_txt |-> [name |-> "requirements-dev.txt", basename |-> "requirements-dev.txt", ext |-> ".txt", dirs |-> <<>>, dirglobs |-> <<>>, globs |-> {}, mime |-> "text",
            readable |-> FALSE, null_byte |-> FALSE, size |-> 7, vanish |-> "never",
            lines |-> <<"L98", "L2">>,
            nolog |-> {}, digest |-> "8004a972",
            deps |-> [direct |-> <<"pytest">>, dev |-> <<>>, optional |-> <<>>, raised |-> FALSE],
            bandit |-> [status |-> "ok", items |-> <<>>],
            ansible_lint |-> [status |-> "ok", items |-> <<>>],
            yamllint |-> [status |-> "ok", items |-> <<>>],
            ast |-> [ok |-> TRUE, error |-> "none", lineno |-> 0,
                     nodes |-> <<>>]],
      pkg_json |-> [name |-> "package.json", basename |-> "package.json", ext |-> ".json", dirs |-> <<>>, dirglobs |-> <<>>, globs |-> {}, mime |-> "other",
            readable |-> TRUE, null_byte |-> FALSE, size |-> 65, vanish |-> "never",
            lines |-> <<"L99", "L2">>,
            nolog |-> {}, digest |-> "dfbcc8ab",
            deps |-> [direct |-> <<"left-pad">>, dev |-> <<>>, optional |-> <<>>, raised |-> TRUE],
            bandit |-> [status |-> "ok", items |-> <<>>],
            ansible_lint |-> [status |-> "ok", items |-> <<>>],
            yamllint |-> [status |-> "ok", items |-> <<>>],
            ast |-> [ok |-> TRUE, error |-> "none", lineno |-> 0,
                     nodes |-> <<>>]],
      trace_log |-> [name |-> "app.log", basename |-> "app.log", ext |-> ".log", dirs |-> <<>>, dirglobs |-> <<>>, globs |-> {"*.log"}, mime |-> "none",
            readable |-> TRUE, null_byte |-> FALSE, size |-> 19, vanish |-> "never",
            lines |-> <<"L79", "L2">>,
            nolog |-> {}, digest |-> "202f8d73",
            deps |-> [direct |-> <<>>, dev |-> <<>>, optional |-> <<>>, raised |-> FALSE],
            bandit |-> [status |-> "ok", items |-> <<>>],
            ansible_lint |-> [status |-> "ok", items |-> <<>>],
            yamllint |-> [status |-> "ok", items |-> <<>>],
            ast |-> [ok |-> TRUE, error |-> "none", lineno |-> 0,
                     nodes |-> <<>>]],
      src_py |-> [name |-> "util.py", basename |-> "util.py", ext |-> ".py", dirs |-> <<"src">>, dirglobs |-> <<{}>>, globs |-> {}, mime |-> "text",
            readable |-> TRUE, null_byte |-> FALSE, size |-> 10, vanish |-> "never",
            lines |-> <<"L100", "L2">>,
            nolog |-> {}, digest |-> "3727adff",
            deps |-> [direct |-> <<>>, dev |-> <<>>, optional |-> <<>>, raised |-> FALSE],
            bandit |-> [status |-> "ok", items |-> <<>>],
            ansible_lint |-> [status |-> "ok", items |-> <<>>],
            yamllint |-> [status |-> "ok", items |-> <<>>],
            ast |-> [ok |-> TRUE, error |-> "none", lineno |-> 0,
                     nodes |-> <<[type |-> "Other", parent |-> 0, lineno |-> 0, nargs |-> 0, nvalues |-> 0],
                 [type |-> "Other", parent |-> 1, lineno |-> 1, nargs |-> 0, nvalues |-> 0],
                 [type |-> "Other", parent |-> 2, lineno |-> 1, nargs |-> 0, nvalues |-> 0]>>]],
      dep_js |-> [name |-> "index.js", basename |-> "index.js", ext |-> ".js", dirs |-> <<"node_modules", "lib">>, dirglobs |-> <<{}, {}>>, globs |-> {}, mime |-> "text",
            readable |-> TRUE, null_byte |-> FALSE, size |-> 11, vanish |-> "never",
            lines |-> <<"L101", "L2">>,
            nolog |-> {}, digest |-> "5747ff2c",
            deps |-> [direct |-> <<>>, dev |-> <<>>, optional |-> <<>>, raised |-> FALSE],
            bandit |-> [status |-> "ok", items |-> <<>>],
            ansible_lint |-> [status |-> "ok", items |-> <<>>],
            yamllint |-> [status |-> "ok", items |-> <<>>],
            ast |-> [ok |-> TRUE, error |-> "none", lineno |-> 0,
                     nodes |-> <<>>]],
      venv_py |-> [name |-> "site.py", basename |-> "site.py", ext |-> ".py", dirs |-> <<"venv", "lib">>, dirglobs |-> <<{}, {}>>, globs |-> {}, mime |-> "text",
            readable |-> TRUE, null_byte |-> FALSE, size |-> 8, vanish |-> "never",
            lines |-> <<"L6", "L2">>,
            nolog |-> {}, digest |-> "2072951d",
            deps |-> [direct |-> <<>>, dev |-> <<>>, optional |-> <<>>, raised |-> FALSE],
            bandit |-> [status |-> "ok", items |-> <<>>],
            ansible_lint |-> [status |-> "ok", items |-> <<>>],
            yamllint |-> [status |-> "ok", items |-> <<>>],
            ast |-> [ok |-> TRUE, error |-> "none", lineno |-> 0,
                     nodes |-> <<[type |-> "Other", parent |-> 0, lineno |-> 0, nargs |-> 0, nvalues |-> 0],
                 [type |-> "Other", parent |-> 1, lineno |-> 1, nargs |-> 0, nvalues |-> 0],
                 [type |-> "Other", parent |-> 2, lineno |-> 1, nargs |-> 0, nvalues |-> 0],
                 [type |-> "Other", parent |-> 3, lineno |-> 1, nargs |-> 0, nvalues |-> 0],
                 [type |-> "Other", parent |-> 3, lineno |-> 1, nargs |-> 0, nvalues |-> 0],
                 [type |-> "Other", parent |-> 5, lineno |-> 0, nargs |-> 0, nvalues |-> 0],
                 [type |-> "Other", parent |-> 5, lineno |-> 0, nargs |-> 0, nvalues |-> 0]>>]],
      cache_pyc |-> [name |-> "a.pyc", basename |-> "a.pyc", ext |-> ".pyc", dirs |-> <<"__pycache__">>, dirglobs |-> <<{}>>, globs |-> {"*.pyc"}, mime |-> "other",
            readable |-> TRUE, null_byte |-> FALSE, size |-> 1, vanish |-> "never",
            lines |-> <<"L102">>,
            nolog |-> {}, digest |-> "2d711642",
            deps |-> [direct |-> <<>>, dev |-> <<>>, optional |-> <<>>, raised |-> FALSE],
            bandit |-> [status |-> "ok", items |-> <<>>],
            ansible_lint |-> [status |-> "ok", items |-> <<>>],
            yamllint |-> [status |-> "ok", items |-> <<>>],
            ast |-> [ok |-> TRUE, error |-> "none", lineno |-> 0,
                     nodes |-> <<>>]],
      build_js |-> [name |-> "out.js", basename |-> "out.js", ext |-> ".js", dirs |-> <<"pkg", "build">>, dirglobs |-> <<{}, {}>>, globs |-> {}, mime |-> "text",
            readable |-> TRUE, null_byte |-> FALSE, size |-> 11, vanish |-> "never",
            lines |-> <<"L101", "L2">>,
            nolog |-> {}, digest |-> "5747ff2c",
            deps |-> [direct |-> <<>>, dev |-> <<>>, optional |-> <<>>, raised |-> FALSE],
            bandit |-> [status |-> "ok", items |-> <<>>],
            ansible_lint |-> [status |-> "ok", items |-> <<>>],
            yamllint |-> [status |-> "ok", items |-> <<>>],
            ast |-> [ok |-> TRUE, error |-> "none", lineno |-> 0,
                     nodes |-> <<>>]],
      tmpdir_py |-> [name |-> "keep.py", basename |-> "keep.py", ext |-> ".py", dirs |-> <<"old.tmp">>, dirglobs |-> <<{"*.tmp"}>>, globs |-> {}, mime |-> "text",
            readable |-> TRUE, null_byte |-> FALSE, size |-> 6, vanish |-> "never",
            lines |-> <<"L72", "L2">>,
            nolog |-> {}, digest |-> "9e26bf36",
            deps |-> [direct |-> <<>>, dev |-> <<>>, optional |-> <<>>, raised |-> FALSE],
            bandit |-> [status |-> "ok", items |-> <<>>],
            ansible_lint |-> [status |-> "ok", items |-> <<>>],
            yamllint |-> [status |-> "ok", items |-> <<>>],
            ast |-> [ok |-> TRUE, error |-> "none", lineno |-> 0,
                     nodes |-> <<[type |-> "Other", parent |-> 0, lineno |-> 0, nargs |-> 0, nvalues |-> 0],
                 [type |-> "Other", parent |-> 1, lineno |-> 1, nargs |-> 0, nvalues |-> 0],
                 [type |-> "Other", parent |-> 2, lineno |-> 1, nargs |-> 0, nvalues |-> 0],
                 [type |-> "Other", parent |-> 2, lineno |-> 1, nargs |-> 0, nvalues |-> 0],
                 [type |-> "Other", parent |-> 3, lineno |-> 0, nargs |-> 0, nvalues |-> 0]>>]] ]

\* the kinds in a fixed order, from which directories are drawn
KindOrder ==
    << "clean_go", "big_go", "pw_py", "evals_py", "syntax_py", "args_py",
       "perf_py", "nested_py", "var9_js", "branchy_js", "complex_js", "mixed_js",
       "mixed_ts", "sys_java", "inj_sql", "site_yml", "role_yml", "plain_yml",
       "logo_png", "nul_py", "notes_txt", "data_json", "huge_py", "limit_py",
       "gone_py", "lost_py", "locked_py", "noext", "upper_py", "faded_js",
       "faded_yml", "early_py", "chain_py", "tokens_go", "five_go", "broken_tool_py",
       "colon_js", "short_py", "say_py", "defs_h", "pipfile", "reqs_txt",
       "reqs_dev_txt", "pkg_json", "trace_log", "src_py", "dep_js", "venv_py",
       "cache_pyc", "build_js", "tmpdir_py" >>
\* ---- end of the catalogue ----

Kinds == DOMAIN FileTable

\* a file of one kind, with its lines
File(kind) == [FileTable[kind] EXCEPT !.lines = [i \in DOMAIN @ |-> LineTable[@[i]]]]

LinesOf(f) == f.lines
LineOf(f, i) == f.lines[i]
Has(f, i, feat) == feat \in LineOf(f, i).feats
\* "sub in content" for a sub without newline: some line contains it
ContentHas(f, feat) == \E i \in 1..Len(f.lines) : Has(f, i, feat)

----------------------------------------------------------------------------
(* Language classifier: analyzer.py 99-127, 310-332 *)

\* _get_supported_languages(), in dict order
SupportedLanguages ==
    << [language |-> "python",     extensions |-> {".py", ".pyw"}],
       [language |-> "javascript", extensions |-> {".js", ".jsx", ".mjs"}],
       [language |-> "typescript", extensions |-> {".ts", ".tsx"}],
       [language |-> "java",       extensions |-> {".java"}],
       [language |-> "go",         extensions |-> {".go"}],
       [language |-> "rust",       extensions |-> {".rs"}],
       [language |-> "cpp",        extensions |-> {".cpp", ".cc", ".cxx", ".c++", ".hpp", ".h"}],
       [language |-> "c",          extensions |-> {".c", ".h"}],
       [language |-> "csharp",     extensions |-> {".cs"}],
       [language |-> "php",        extensions |-> {".php"}],
       [language |-> "ruby",       extensions |-> {".rb"}],
       [language |-> "swift",      extensions |-> {".swift"}],
       [language |-> "kotlin",     extensions |-> {".kt"}],
       [language |-> "scala",      extensions |-> {".scala"}],
       [language |-> "r",          extensions |-> {".r", ".R"}],
       [language |-> "sql",        extensions |-> {".sql"}],
       [language |-> "bash",       extensions |-> {".sh"}],
       [language |-> "powershell", extensions |-> {".ps1"}],
       [language |-> "yaml",       extensions |-> {".yml", ".yaml"}],
       [language |-> "json",       extensions |-> {".json"}],
       [language |-> "xml",        extensions |-> {".xml"}],
       [language |-> "html",       extensions |-> {".html", ".htm"}],
       [language |-> "css",        extensions |-> {".css"}],
       [language |-> "scss",       extensions |-> {".scss"}],
       [language |-> "less",       extensions |-> {".less"}] >>

NoLanguage == "None"

\* _detect_language(file_path): the first language listing the extension
DetectLanguage(f) ==
    LET hits == {k \in 1..Len(SupportedLanguages) :
                    f.ext \in SupportedLanguages[k].extensions}
    IN  IF hits = {} THEN NoLanguage
        ELSE SupportedLanguages[CHOOSE k \in hits : \A j \in hits : k <= j].language

\* is_binary_file without its MIME test
IsBinaryFileByContentOnly(f) ==
    IF ~f.readable THEN TRUE ELSE f.null_byte

\* is_binary_file(file_path): helpers.py 59-75
IsBinaryFile(f) ==
    IF f.mime = "other" THEN TRUE
    ELSE IF ~f.readable THEN TRUE           \* open() raises OSError
    ELSE f.null_byte

\* analyzable only with an extension that a single language lists
IsAnalyzableUnambiguous(f) ==
    IF IsBinaryFile(f) THEN FALSE
    ELSE Cardinality({k \in 1..Len(SupportedLanguages) :
                        f.ext \in SupportedLanguages[k].extensions}) = 1

\* _is_analyzable(file_path)
IsAnalyzable(f) ==
    IF IsBinaryFile(f) THEN FALSE
    ELSE \E k \in 1..Len(SupportedLanguages) : f.ext \in SupportedLanguages[k].extensions

----------------------------------------------------------------------------
(* Metric calculator: helpers.py 78-251 *)

\* _get_comment_patterns(language), as the line features of startswith(pattern)
CommentPatterns(language) ==
    IF language \in {"python", "ruby", "r", "bash", "powershell"} THEN {"starts_hash"}
    ELSE IF language \in {"javascript", "typescript", "java", "go", "rust", "cpp", "c",
                          "csharp", "swift", "kotlin", "scala"}
         THEN {"starts_slashes", "starts_slashstar"}
    ELSE IF language = "php" THEN {"starts_slashes", "starts_slashstar", "starts_hash"}
    ELSE IF language = "sql" THEN {"starts_dashes", "starts_slashstar"}
    ELSE {"starts_hash", "starts_slashes"}

\* is node d the node i or one of its descendants (ast.walk(i) visits d)
RECURSIVE InSubtree(_, _, _)
InSubtree(nodes, d, i) ==
    IF d = i THEN TRUE
    ELSE IF nodes[d].parent = 0 THEN FALSE
    ELSE InSubtree(nodes, nodes[d].parent, i)

DecisionUnits(node) ==
    IF node.type \in {"If", "While", "For", "AsyncFor"} THEN 1
    ELSE IF node.type = "ExceptHandler" THEN 1
    ELSE IF node.type = "comprehension" THEN 1
    ELSE IF node.type = "BoolOp" THEN node.nvalues - 1
    ELSE 0

\* the decision points of a function without the base unit
CountDecisionPointsWithoutBase(nodes, i) ==
    SumSeq([d \in 1..Len(nodes) |->
               IF InSubtree(nodes, d, i) THEN DecisionUnits(nodes[d]) ELSE 0])

\* _count_decision_points(node)
CountDecisionPoints(nodes, i) ==
    1 + SumSeq([d \in 1..Len(nodes) |->
                   IF InSubtree(nodes, d, i) THEN DecisionUnits(nodes[d]) ELSE 0])

IsFunctionNode(node) == node.type \in {"FunctionDef", "AsyncFunctionDef"}

\* _analyze_python_complexity(content)
AnalyzePythonComplexity(f) ==
    IF ~f.ast.ok
    THEN [cyclomatic_complexity |-> 0, functions |-> 0, classes |-> 0]
    ELSE LET nodes == f.ast.nodes
         IN  [cyclomatic_complexity |->
                  SumSeq([i \in 1..Len(nodes) |->
                             IF IsFunctionNode(nodes[i])
                             THEN CountDecisionPoints(nodes, i) ELSE 0]),
              functions |-> Count(nodes, IsFunctionNode),
              classes   |-> Count(nodes, LAMBDA n : n.type = "ClassDef")]

\* _analyze_js_complexity(content): re.findall counts over the content
AnalyzeJsComplexity(f) ==
    LET n == Len(f.lines)
    IN  [cyclomatic_complexity |-> SumSeq([i \in 1..n |-> LineOf(f, i).js_decisions]),
         functions |-> SumSeq([i \in 1..n |-> LineOf(f, i).js_functions]),
         classes   |-> SumSeq([i \in 1..n |-> LineOf(f, i).js_classes])]

ZeroComplexity ==
    [lines_of_code |-> 0, blank_lines |-> 0, comment_lines |-> 0,
     cyclomatic_complexity |-> 0, functions |-> 0, classes |-> 0]

\* calculate_complexity(file_path, language)
CalculateComplexity(f, language) ==
    IF ~f.readable THEN ZeroComplexity      \* except Exception: return complexity
    ELSE
    LET n == Len(f.lines)
        isBlank(i) == Has(f, i, "blank")
        isComment(i) == ~isBlank(i) /\ \E p \in CommentPatterns(language) : Has(f, i, p)
        spec == IF language = "python" THEN AnalyzePythonComplexity(f)
                ELSE IF language \in {"javascript", "typescript"}
                     THEN AnalyzeJsComplexity(f)
                ELSE [cyclomatic_complexity |-> 0, functions |-> 0, classes |-> 0]
    IN  [lines_of_code |-> n,
         blank_lines   |-> Cardinality({i \in 1..n : isBlank(i)}),
         comment_lines |-> Cardinality({i \in 1..n : isComment(i)}),
         cyclomatic_complexity |-> spec.cyclomatic_complexity,
         functions |-> spec.functions,
         classes   |-> spec.classes]

\* calculate_file_hash(file_path)
CalculateFileHash(f) == IF f.readable THEN f.digest ELSE ""

----------------------------------------------------------------------------
(* Pattern rule engine.  An issue is the dict the code appends, without its *)
(* description and code snippet (both are functions of the rule and line).  *)

Issue(category, type, severity, line, tool) ==
    [category |-> category, type |-> type, severity |-> severity,
     line |-> line, tool |-> tool]

Rule(feat, type, severity) == [feat |-> feat, type |-> type, severity |-> severity]

\* find_security_patterns: common_patterns, helpers.py 409-434
CommonPatterns ==
    << Rule("re_hardcoded_password", "hardcoded_password", "high"),
       Rule("re_hardcoded_api_key",  "hardcoded_api_key",  "high"),
       Rule("re_hardcoded_secret",   "hardcoded_secret",   "high"),
       Rule("re_hardcoded_token",    "hardcoded_token",    "medium") >>

\* _get_python_security_patterns()
PythonSecurityPatterns ==
    << Rule("re_eval",             "dangerous_eval",         "high"),
       Rule("re_exec",             "dangerous_exec",         "high"),
       Rule("re_os_system",        "command_injection",      "high"),
       Rule("re_subprocess_shell", "shell_injection",        "high"),
       Rule("re_pickle",           "unsafe_deserialization", "high") >>

\* _get_js_security_patterns()
JsSecurityPatterns ==
    << Rule("re_eval",           "dangerous_eval",   "high"),
       Rule("re_innerHTML",      "xss_risk",         "medium"),
       Rule("re_document_write", "xss_risk",         "medium"),
       Rule("re_new_function",   "dynamic_function", "medium") >>

\* _get_sql_security_patterns()
SqlSecurityPatterns ==
    << Rule("re_sql_concat", "sql_injection", "high"),
       Rule("re_sql_format", "sql_injection", "high") >>

\* find_security_patterns(file_path, language), wrapped by _analyze_security 339-349
FindSecurityPatterns(f, language) ==
    IF ~f.readable THEN <<>>                \* except Exception: pass
    ELSE
    LET patterns == CommonPatterns \o
                    (IF language = "python" THEN PythonSecurityPatterns
                     ELSE IF language \in {"javascript", "typescript"} THEN JsSecurityPatterns
                     ELSE IF language = "sql" THEN SqlSecurityPatterns
                     ELSE <<>>)
        hit(i) == LET m == SelectSeq(patterns, LAMBDA r : Has(f, i, r.feat))
                  IN  [k \in 1..Len(m) |->
                         Issue("security", m[k].type, m[k].severity, i, "pattern_analysis")]
    IN  PerLine(hit, Len(f.lines))

\* one "if cond: issues.append(...)" statement
When(cond, issue) == IF cond THEN <<issue>> ELSE <<>>

AnsibleFilenames ==
    {"playbook.yml", "playbook.yaml", "site.yml", "site.yaml", "main.yml", "main.yaml"}

AnsibleKeywords ==
    {"in_hosts", "in_tasks", "in_handlers", "in_vars", "in_roles", "in_playbook",
     "in_become", "in_gather_facts", "in_ansible_", "in_with_items", "in_when",
     "in_notify", "in_register"}

\* _is_ansible_file(file_path, content)
IsAnsibleFile(f) ==
    IF f.basename \in AnsibleFilenames THEN TRUE
    ELSE Cardinality({k \in AnsibleKeywords : ContentHas(f, k)}) >= 3

\* _analyze_yaml_security(file_path)
AnalyzeYamlSecurity(f) ==
    IF ~f.readable THEN <<>>
    ELSE
    LET is_ansible == IsAnsibleFile(f)
        tool == "ansible_security_analysis"
        hit(i) ==
            When(Has(f, i, "re_yaml_secret"),
                 Issue("security", "hardcoded_secret", "high", i, "yaml_security_analysis"))
         \o When(Has(f, i, "re_url_cred"),
                 Issue("security", "url_with_credentials", "high", i, "yaml_security_analysis"))
         \o (IF ~is_ansible THEN <<>> ELSE
                When(Has(f, i, "re_shell_cmd") /\ Has(f, i, "in_braces")
                        /\ Has(f, i, "low_unsafe"),
                     Issue("security", "ansible_shell_injection", "high", i, tool))
             \o When(Has(f, i, "re_shell_sudo") /\ ~ContentHas(f, "in_become"),
                     Issue("security", "ansible_unsafe_sudo", "medium", i, tool))
             \o When(Has(f, i, "in_mode") /\ Has(f, i, "re_mode") /\ Has(f, i, "mode_world"),
                     Issue("security", "ansible_world_writable", "medium", i, tool))
             \o When(Has(f, i, "in_src") /\ Has(f, i, "in_braces")
                        /\ ~Has(f, i, "re_quote_filter"),
                     Issue("security", "ansible_unquoted_src", "medium", i, tool))
             \o When(Has(f, i, "in_debug") /\ (Has(f, i, "in_var") \/ Has(f, i, "in_msg"))
                        /\ Has(f, i, "low_sensitive"),
                     Issue("security", "ansible_debug_sensitive", "medium", i, tool))
             \o When(Has(f, i, "any_user_module") /\ Has(f, i, "in_password")
                        /\ i \notin f.nolog,
                     Issue("security", "ansible_missing_no_log", "high", i, tool)))
    IN  PerLine(hit, Len(f.lines))

\* _analyze_ansible_quality_line(line, line_num)
AnalyzeAnsibleQualityLine(f, i) ==
    LET dep == When(Has(f, i, "re_dep_include"),
                    Issue("quality", "ansible_deprecated_syntax", "medium", i, "ansible_analysis"))
            \o When(Has(f, i, "re_dep_sudo"),
                    Issue("quality", "ansible_deprecated_syntax", "medium", i, "ansible_analysis"))
            \o When(Has(f, i, "re_dep_sudo_user"),
                    Issue("quality", "ansible_deprecated_syntax", "medium", i, "ansible_analysis"))
            \o When(Has(f, i, "re_dep_always_run"),
                    Issue("quality", "ansible_deprecated_syntax", "medium", i, "ansible_analysis"))
    IN  dep
     \o When(Has(f, i, "in_braces") /\ Has(f, i, "in_close_braces")
                /\ Has(f, i, "re_var_value") /\ ~Has(f, i, "re_var_quoted"),
             Issue("quality", "ansible_unquoted_variables", "medium", i, "ansible_analysis"))
     \o When(Has(f, i, "re_ansible_secret"),
             Issue("security", "ansible_hardcoded_secret", "high", i, "ansible_analysis"))

\* _analyze_ansible_structure(content, file_path)
AnalyzeAnsibleStructure(f) ==
    LET task_count == SumSeq([i \in 1..Len(f.lines) |-> LineOf(f, i).names])
    IN  When(ContentHas(f, "in_hosts") /\ ~ContentHas(f, "in_tasks")
                /\ ~ContentHas(f, "in_roles"),
             Issue("quality", "ansible_missing_tasks", "high", 1, "ansible_analysis"))
     \o When(task_count > 50,
             Issue("quality", "ansible_complex_playbook", "medium", 1, "ansible_analysis"))
     \o When(ContentHas(f, "in_dash_name") /\ ~ContentHas(f, "in_description")
                /\ ~ContentHas(f, "in_hash_sp"),
             Issue("quality", "ansible_missing_documentation", "low", 1, "ansible_analysis"))

\* _analyze_yaml_quality(file_path)
AnalyzeYamlQuality(f) ==
    IF ~f.readable THEN <<>>
    ELSE
    LET is_ansible == IsAnsibleFile(f)
        hit(i) ==
            When(Has(f, i, "in_tab"),
                 Issue("quality", "yaml_tabs", "medium", i, "yaml_analysis"))
         \o When(Has(f, i, "trailing_ws"),
                 Issue("quality", "trailing_whitespace", "low", i, "yaml_analysis"))
         \o When(~Has(f, i, "blank") /\ Has(f, i, "starts_space")
                    /\ LineOf(f, i).indent % 2 # 0,
                 Issue("quality", "inconsistent_indentation", "medium", i, "yaml_analysis"))
         \o (IF is_ansible THEN AnalyzeAnsibleQualityLine(f, i) ELSE <<>>)
    IN  PerLine(hit, Len(f.lines))
     \o (IF is_ansible THEN AnalyzeAnsibleStructure(f) ELSE <<>>)

\* _analyze_yaml_performance(file_path)
AnalyzeYamlPerformance(f) ==
    IF ~f.readable THEN <<>>
    ELSE IF ~IsAnsibleFile(f) THEN <<>>
    ELSE
    LET n == Len(f.lines)
        \* lines[i:i+5] for the 1-based i: the (up to) five lines after line i
        next_lines(i) == {j \in (i + 1)..Min(n, i + 5) : TRUE}
        hit(i) ==
            When(Has(f, i, "re_shell_or_cmd") /\ Has(f, i, "low_pkg_cmd"),
                 Issue("performance", "ansible_inefficient_module", "medium", i, "ansible_analysis"))
         \o When(Has(f, i, "in_register") /\ i < n - 5
                    /\ ~\E j \in next_lines(i) : Has(f, j, "in_when"),
                 Issue("performance", "ansible_missing_when", "low", i, "ansible_analysis"))
         \o When(Has(f, i, "in_with_items"),
                 Issue("performance", "ansible_deprecated_loop", "medium", i, "ansible_analysis"))
    IN  PerLine(hit, n)

\* _analyze_python_quality(file_path)
AnalyzePythonQuality(f) ==
    IF ~f.readable THEN <<>>
    ELSE IF f.ast.error = "SyntaxError"
    THEN << Issue("quality", "syntax_error", "high", f.ast.lineno, "ast_analysis") >>
    ELSE IF ~f.ast.ok THEN <<>>             \* except Exception, line 577
    ELSE
    LET nodes == f.ast.nodes
        line_len(k) == IF k <= Len(f.lines) THEN LineOf(f, k).len ELSE 0
        hit(i) ==
            When(IsFunctionNode(nodes[i]) /\ nodes[i].nargs > 7,
                 Issue("quality", "too_many_arguments", "medium", nodes[i].lineno, "ast_analysis"))
         \o When(nodes[i].lineno # 0 /\ line_len(nodes[i].lineno) > 120,
                 Issue("quality", "long_line", "low", nodes[i].lineno, "ast_analysis"))
    IN  PerLine(hit, Len(nodes))

\* _analyze_js_quality(file_path)
AnalyzeJsQuality(f) ==
    IF ~f.readable THEN <<>>
    ELSE
    LET hit(i) ==
            When(Has(f, i, "re_console"),
                 Issue("quality", "console_statement", "low", i, "pattern_analysis"))
         \o When(Has(f, i, "re_var"),
                 Issue("quality", "var_usage", "medium", i, "pattern_analysis"))
         \o When(Has(f, i, "re_loose_eq"),
                 Issue("quality", "loose_equality", "medium", i, "pattern_analysis"))
    IN  PerLine(hit, Len(f.lines))

\* _analyze_java_quality(file_path)
AnalyzeJavaQuality(f) ==
    IF ~f.readable THEN <<>>
    ELSE
    LET hit(i) ==
            When(Has(f, i, "in_println"),
                 Issue("quality", "system_out_println", "low", i, "pattern_analysis"))
         \o When(Has(f, i, "re_empty_catch"),
                 Issue("quality", "empty_catch", "high", i, "pattern_analysis"))
    IN  PerLine(hit, Len(f.lines))

\* _analyze_python_performance(file_path)
AnalyzePythonPerformance(f) ==
    IF ~f.readable THEN <<>>
    ELSE
    LET hit(i) ==
            When(Has(f, i, "in_pluseq") /\ (Has(f, i, "in_for_sp") \/ Has(f, i, "in_while_sp")),
                 Issue("performance", "string_concatenation_in_loop", "medium", i, "pattern_analysis"))
         \o When(Has(f, i, "re_append_loop"),
                 Issue("performance", "list_comprehension_opportunity", "low", i, "pattern_analysis"))
    IN  PerLine(hit, Len(f.lines))

\* _analyze_js_performance(file_path)
AnalyzeJsPerformance(f) ==
    IF ~f.readable THEN <<>>
    ELSE
    LET hit(i) ==
            When(Has(f, i, "re_dom_query") /\ (Has(f, i, "in_for") \/ Has(f, i, "in_while")),
                 Issue("performance", "dom_query_in_loop", "medium", i, "pattern_analysis"))
         \o When(Has(f, i, "re_indexof"),
                 Issue("performance", "inefficient_array_search", "low", i, "pattern_analysis"))
    IN  PerLine(hit, Len(f.lines))

----------------------------------------------------------------------------
(* External tools.  What a tool run does is recorded with the file:          *)
(*   status "ok"       the run produced output that parses into items       *)
(*   status "text"     ansible-lint output that is not JSON (one item per   *)
(*                     output line naming an error or a warning)            *)
(*   status "caught"   the run raised what the wrapper catches (timeout,    *)
(*                     SubprocessError, JSONDecodeError)                    *)
(*   status "uncaught" the run raised what the wrapper does not catch       *)
(*                     (e.g. output of an unexpected shape: AttributeError) *)
(* An analyzer step yields [raised, issues].                                *)

Done(issues) == [raised |-> FALSE, issues |-> issues]
Raised == [raised |-> TRUE, issues |-> <<>>]

\* _map_ansible_lint_severity(level)
MapAnsibleLintSeverity(level) ==
    IF level \in {"very_high", "high"} THEN "high"
    ELSE IF level = "medium" THEN "medium"
    ELSE IF level \in {"low", "very_low", "info"} THEN "low"
    ELSE "medium"

\* _map_yamllint_severity(level)
MapYamllintSeverity(level) ==
    IF level = "error" THEN "high"
    ELSE IF level = "warning" THEN "medium"
    ELSE IF level = "info" THEN "low"
    ELSE "medium"

\* _run_bandit(file_path)
RunBandit(f) ==
    LET t == f.bandit
    IN  IF t.status = "uncaught" THEN Raised
        ELSE IF t.status = "caught" THEN Done(<<>>)
        ELSE Done([k \in 1..Len(t.items) |->
                     Issue("security", t.items[k].id, t.items[k].level,
                           t.items[k].line, "bandit")])

\* _run_ansible_lint(file_path)
RunAnsibleLint(f) ==
    LET t == f.ansible_lint
    IN  IF t.status = "uncaught" THEN Raised
        ELSE IF t.status = "caught" THEN Done(<<>>)
        ELSE IF t.status = "text"
        THEN Done([k \in 1..Len(t.items) |->
                     Issue("quality", "ansible_lint_issue", "medium", 0, "ansible-lint")])
        ELSE Done([k \in 1..Len(t.items) |->
                     Issue("quality", "ansible_lint_" \o t.items[k].id,
                           MapAnsibleLintSeverity(t.items[k].level),
                           t.items[k].line, "ansible-lint")])

\* _run_yamllint(file_path)
RunYamllint(f) ==
    LET t == f.yamllint
    IN  IF t.status = "uncaught" THEN Raised
        ELSE IF t.status = "caught" THEN Done(<<>>)
        ELSE Done([k \in 1..Len(t.items) |->
                     Issue("quality", "yaml_lint_" \o t.items[k].id,
                           MapYamllintSeverity(t.items[k].level),
                           t.items[k].line, "yamllint")])

\* then(a, b): b's issues appended to a's unless one of them raised
Extend(a, b) ==
    IF a.raised \/ b.raised THEN Raised ELSE Done(a.issues \o b.issues)

\* _analyze_security(file_path, language); tools: self.analyzers
AnalyzeSecurity(f, language, tools) ==
    LET pattern == Done(FindSecurityPatterns(f, language))
    IN  IF language = "python" /\ "python_security" \in tools
        THEN Extend(pattern, RunBandit(f))
        ELSE IF language = "yaml"
        THEN LET y == Extend(pattern, Done(AnalyzeYamlSecurity(f)))
             IN  IF "ansible_lint" \notin tools THEN y
                 ELSE IF ~f.readable THEN Raised      \* open(file_path).read()
                 ELSE IF IsAnsibleFile(f) THEN Extend(y, RunAnsibleLint(f))
                 ELSE y
        ELSE pattern

\* _analyze_quality(file_path, language)
AnalyzeQuality(f, language, tools) ==
    IF language = "python" THEN Done(AnalyzePythonQuality(f))
    ELSE IF language \in {"javascript", "typescript"} THEN Done(AnalyzeJsQuality(f))
    ELSE IF language = "java" THEN Done(AnalyzeJavaQuality(f))
    ELSE IF language = "yaml"
    THEN IF "yaml_lint" \in tools
         THEN Extend(Done(AnalyzeYamlQuality(f)), RunYamllint(f))
         ELSE Done(AnalyzeYamlQuality(f))
    ELSE Done(<<>>)

\* _analyze_performance(file_path, language)
AnalyzePerformance(f, language) ==
    IF language = "python" THEN Done(AnalyzePythonPerformance(f))
    ELSE IF language \in {"javascript", "typescript"} THEN Done(AnalyzeJsPerformance(f))
    ELSE IF language = "yaml" THEN Done(AnalyzeYamlPerformance(f))
    ELSE Done(<<>>)

----------------------------------------------------------------------------
(* Scoring engine: analyzer.py 1123-1189 *)

\* penalty added for one issue by the if/elif/else ladder on severity
SecurityPenalty(sev) ==
    IF sev = "high" THEN 20 ELSE IF sev = "medium" THEN 10 ELSE 5

\* the quality ladder with the security ladder's medium penalty
QualityPenaltyAsSecurity(sev) ==
    IF sev = "high" THEN 15 ELSE IF sev = "medium" THEN 10 ELSE 3

QualityPenalty(sev) ==
    IF sev = "high" THEN 15 ELSE IF sev = "medium" THEN 8 ELSE 3

PerformancePenalty(sev) ==
    IF sev = "high" THEN 20 ELSE IF sev = "medium" THEN 12 ELSE 5

\* the "for issue in issues: penalty += ..." loops
SecurityPenaltySum(issues) ==
    SumSeq([k \in 1..Len(issues) |->
               IF issues[k].category = "security"
               THEN SecurityPenalty(issues[k].severity) ELSE 0])

QualityPenaltySum(issues) ==
    SumSeq([k \in 1..Len(issues) |-> QualityPenalty(issues[k].severity)])

PerformancePenaltySum(issues) ==
    SumSeq([k \in 1..Len(issues) |-> PerformancePenalty(issues[k].severity)])

\* _calculate_security_score(issues, metrics)
CalculateSecurityScore(issues, metrics) ==
    IF issues = <<>> THEN 100
    ELSE Max(0, 100 - SecurityPenaltySum(issues))

ComplexityPenalty(metrics) ==
    IF metrics.cyclomatic_complexity > 10
    THEN Min(20, metrics.cyclomatic_complexity - 10) ELSE 0

\* the size penalty counting tens of lines, not hundreds
SizePenaltyPerTenLines(metrics) ==
    IF metrics.lines_of_code > 500
    THEN Min(10, (metrics.lines_of_code - 500) \div 10) ELSE 0

SizePenalty(metrics) ==
    IF metrics.lines_of_code > 500
    THEN Min(10, (metrics.lines_of_code - 500) \div 100) ELSE 0

\* _calculate_quality_score without its max(0, ...)
CalculateQualityScoreUnclamped(issues, metrics) ==
    100 - (QualityPenaltySum(SelectCategory(issues, "quality"))
           + ComplexityPenalty(metrics) + SizePenalty(metrics))

\* _calculate_quality_score(issues, metrics)
CalculateQualityScore(issues, metrics) ==
    Max(0, 100 - (QualityPenaltySum(SelectCategory(issues, "quality"))
                  + ComplexityPenalty(metrics) + SizePenalty(metrics)))

\* _calculate_performance_score(issues, metrics)
CalculatePerformanceScore(issues, metrics) ==
    Max(0, 100 - PerformancePenaltySum(SelectCategory(issues, "performance")))

----------------------------------------------------------------------------
(* Suggestion generator: analyzer.py 1191-1237 *)

Suggestion(type, priority, category) ==
    [type |-> type, priority |-> priority, category |-> category]

\* _generate_suggestions(issues, metrics, language)
GenerateSuggestions(issues, metrics, language) ==
    LET issue_types == {issues[k].type : k \in 1..Len(issues)}
    IN  When("hardcoded_password" \in issue_types \/ "hardcoded_api_key" \in issue_types,
             Suggestion("security", "high", "best_practices"))
     \o When(metrics.cyclomatic_complexity > 15,
             Suggestion("refactoring", "medium", "maintainability"))
     \o (IF language = "python"
         THEN When("console_statement" \in issue_types,
                   Suggestion("quality", "low", "best_practices"))
         ELSE IF language \in {"javascript", "typescript"}
         THEN When("var_usage" \in issue_types,
                   Suggestion("modernization", "medium", "modern_syntax"))
         ELSE <<>>)

----------------------------------------------------------------------------
(* Per-file analysis: analyzer.py 236-293 *)

MAX_FILE_SIZE == 1048576

\* a file of the maximum size skipped as well
TooLargeFromMaximum(size) == size >= MAX_FILE_SIZE

\* os.path.getsize(file_path) > self.config.MAX_FILE_SIZE, line 242
TooLarge(size) == size > MAX_FILE_SIZE

NoResult == [kind |-> "none"]
RaisedError == [kind |-> "raise"]

\* the result with the clock written into its metrics
AnalysisResultTimedMetrics(file_path, language, issues, metrics, suggestions, security_score, quality_score, performance_score, timestamp) ==
    [file_path |-> file_path, language |-> language, issues |-> issues,
     metrics |-> [metrics EXCEPT !.file_size = timestamp], suggestions |-> suggestions,
     security_score |-> security_score, quality_score |-> quality_score,
     performance_score |-> performance_score, timestamp |-> timestamp]

\* AnalysisResult(...), lines 276-286
AnalysisResult(file_path, language, issues, metrics, suggestions, security_score, quality_score, performance_score, timestamp) ==
    [file_path |-> file_path, language |-> language, issues |-> issues,
     metrics |-> metrics, suggestions |-> suggestions,
     security_score |-> security_score, quality_score |-> quality_score,
     performance_score |-> performance_score, timestamp |-> timestamp]

\* the file as the analyzers find it once it is gone
Gone(f) == [f EXCEPT !.readable = FALSE]

\* analyze_file(file_path) at clock t; path is the file's place in the repository.
\* f.vanish is the moment the file disappears, if it does:
\*   "before_analysis"    before the os.path.exists test of line 238
\*   "before_size_check"  between line 238 and the os.path.getsize of line 242
\*   "during_analysis"    before the os.path.getsize of line 256
\*   "after_metrics"      after line 257, before the pattern analyses
AnalyzeFile(f, path, tools, t) ==
    IF f.vanish = "before_analysis" \/ IsBinaryFile(f) THEN NoResult
    ELSE IF f.vanish = "before_size_check" THEN RaisedError
    ELSE IF TooLarge(f.size) THEN NoResult
    ELSE
    LET language == DetectLanguage(f)
    IN  IF language = NoLanguage THEN NoResult
        ELSE IF f.vanish = "during_analysis" THEN NoResult   \* except Exception, 291
        ELSE
        LET seen == IF f.vanish = "after_metrics" THEN Gone(f) ELSE f
            complexity == CalculateComplexity(f, language)
            metrics == [lines_of_code |-> complexity.lines_of_code,
                        blank_lines |-> complexity.blank_lines,
                        comment_lines |-> complexity.comment_lines,
                        cyclomatic_complexity |-> complexity.cyclomatic_complexity,
                        functions |-> complexity.functions,
                        classes |-> complexity.classes,
                        file_size |-> f.size,
                        file_hash |-> CalculateFileHash(f)]
            security == AnalyzeSecurity(seen, language, tools)
            quality == AnalyzeQuality(seen, language, tools)
            performance == AnalyzePerformance(seen, language)
        IN  IF security.raised \/ quality.raised \/ performance.raised
            THEN NoResult                                     \* except Exception, 291
            ELSE
            LET all_issues == security.issues \o quality.issues \o performance.issues
            IN  [kind |-> "result",
                 value |->
                   AnalysisResult(path, language, all_issues, metrics,
                       GenerateSuggestions(all_issues, metrics, language),
                       CalculateSecurityScore(security.issues, metrics),
                       CalculateQualityScore(quality.issues, metrics),
                       CalculatePerformanceScore(performance.issues, metrics),
                       t)]

----------------------------------------------------------------------------
(* Discovery: analyzer.py 295-308, config.py 82-90 and 129-144 *)

\* Config.EXCLUDE_PATTERNS and Config.EXCLUDE_DIRECTORIES (the defaults)
ExcludePatterns ==
    <<"__pycache__", "*.pyc", "node_modules", "*.log", "*.tmp", ".git", ".vscode", ".idea">>
ExcludeDirectories == {"venv", "env", ".venv", "dist", "build"}

\* the parts of repo_path: a directory of the caller's choice, here one with no
\* excluded name above it and one below a directory named build
RootParts == <<"/", "work", "repo">>
RootPartsUnderBuild == <<"/", "work", "build", "repo">>

RootPartsOf(path) == IF path = "under_build" THEN RootPartsUnderBuild ELSE RootParts

\* A path is its parts and the wildcard patterns fnmatch finds it to match; a
\* pattern without wildcard matches only the path that is that very string.
PathOfDir(f, k) == [parts |-> <<f.dirs[k]>>, globs |-> f.dirglobs[k]]
PathOfFile(f, root) == [parts |-> root \o f.dirs \o <<f.basename>>, globs |-> f.globs]

\* Config.is_file_excluded(file_path)
IsFileExcluded(path) ==
    \/ \E k \in 1..Len(ExcludePatterns) :
          \/ ExcludePatterns[k] \in path.globs
          \/ path.parts = <<ExcludePatterns[k]>>
    \/ \E d \in ExcludeDirectories : \E k \in 1..Len(path.parts) : path.parts[k] = d

\* discovery that tests the file paths only and prunes no directory
DiscoveredUnpruned(f, root) == ~IsFileExcluded(PathOfFile(f, root))

\* _discover_files(repo_path): os.walk never descends into a pruned directory
Discovered(f, root) ==
    /\ \A k \in 1..Len(f.dirs) : ~IsFileExcluded(PathOfDir(f, k))
    /\ ~IsFileExcluded(PathOfFile(f, root))

Indices(n) == [i \in 1..n |-> i]

DiscoverFiles(dir, root) ==
    SelectSeq(Indices(Len(dir)), LAMBDA i : Discovered(dir[i], root))

----------------------------------------------------------------------------
(* Repository aggregation: analyzer.py 178-234, 1239-1311 *)

\* the limit tested with > in place of >=
FileLimitOffByOne == 100 + 1

FileLimit == 100

\* a mean kept exact: num / den
Fraction(num, den) == [num |-> num, den |-> den]

\* _calculate_overall_scores without its divisions
CalculateOverallScoresAsTotals(results) ==
    LET n == Len(results)
    IN  [security |-> Fraction(SumSeq([k \in 1..n |-> results[k].security_score]), 1),
         quality |-> Fraction(SumSeq([k \in 1..n |-> results[k].quality_score]), 1),
         performance |->
             Fraction(SumSeq([k \in 1..n |-> results[k].performance_score]), 1)]

\* _calculate_overall_scores(file_results)
CalculateOverallScores(results) ==
    IF results = <<>>
    THEN [security |-> Fraction(0, 1), quality |-> Fraction(0, 1),
          performance |-> Fraction(0, 1)]
    ELSE LET n == Len(results)
         IN  [security |-> Fraction(SumSeq([k \in 1..n |-> results[k].security_score]), n),
              quality |-> Fraction(SumSeq([k \in 1..n |-> results[k].quality_score]), n),
              performance |->
                  Fraction(SumSeq([k \in 1..n |-> results[k].performance_score]), n)]

\* a language entered at its first file and not counted again
CountLanguageOnce(langs, lang) ==
    IF \E k \in 1..Len(langs) : langs[k].language = lang
    THEN langs
    ELSE Append(langs, [language |-> lang, count |-> 1])

\* languages[lang] = languages.get(lang, 0) + 1, on a dict kept in insertion order
CountLanguage(langs, lang) ==
    IF \E k \in 1..Len(langs) : langs[k].language = lang
    THEN [k \in 1..Len(langs) |->
             IF langs[k].language = lang
             THEN [language |-> lang, count |-> langs[k].count + 1] ELSE langs[k]]
    ELSE Append(langs, [language |-> lang, count |-> 1])

\* number of issues over all results that satisfy P
CountIssues(results, P(_)) ==
    SumSeq([k \in 1..Len(results) |-> Count(results[k].issues, P)])

\* max(languages.items(), key=lambda x: x[1])[0]: the first of the largest counts
MostCommonLanguage(langs) ==
    IF langs = <<>> THEN "unknown"
    ELSE LET best == CHOOSE k \in 1..Len(langs) :
                        /\ \A j \in 1..Len(langs) : langs[j].count <= langs[k].count
                        /\ \A j \in 1..(k - 1) : langs[j].count < langs[k].count
         IN  langs[best].language

\* a dict of three empty lists, lines 1256 and 562
NoDependencies == [direct |-> <<>>, dev |-> <<>>, optional |-> <<>>]

\* dep_files of _analyze_dependencies
DepFiles ==
    <<"requirements.txt", "requirements-dev.txt", "Pipfile", "pyproject.toml",
      "package.json", "go.mod", "Cargo.toml", "pom.xml", "build.gradle", "composer.json">>

\* detect_dependencies(file_path): the names the parser of the manifest has appended
\* when it returns, nothing when the file cannot be opened
DetectDependencies(f) ==
    IF ~f.readable THEN NoDependencies
    ELSE [direct |-> f.deps.direct, dev |-> f.deps.dev, optional |-> f.deps.optional]

\* the lists of the manifests named before place k of dep_files, one after the other
RECURSIVE Extended(_, _, _)
Extended(dir, key, k) ==
    IF k = 0 THEN <<>>
    ELSE LET here == SelectSeq(dir, LAMBDA f : /\ f.dirs = <<>>
                                               /\ f.name = DepFiles[k]
                                               /\ f.vanish = "never")
         IN  Extended(dir, key, k - 1)
             \o (IF here = <<>> THEN <<>> ELSE DetectDependencies(here[1])[key])


\* list(set(dependencies[key])), line 1274
RemoveDuplicates(seq) == SetToBag({seq[i] : i \in DOMAIN seq})

\* _analyze_dependencies(repo_path): the manifests in the root itself, duplicates removed
AnalyzeDependencies(path, dir) ==
    LET deps(key) == RemoveDuplicates(Extended(dir, key, Len(DepFiles)))
    IN  IF path = "missing"
        THEN [direct |-> EmptyBag, dev |-> EmptyBag, optional |-> EmptyBag]
        ELSE [direct |-> deps("direct"), dev |-> deps("dev"), optional |-> deps("optional")]

\* attention asked for on high-severity issues alone
RequiresAttentionOnHighOnly(high_severity, security_issues) == high_severity > 0

\* 'requires_attention': high_severity > 0 or security_issues > 5, line 1310
RequiresAttention(high_severity, security_issues) ==
    high_severity > 0 \/ security_issues > 5

\* _generate_summary(file_results, languages, dependencies)
GenerateSummary(results, langs, dependencies) ==
    LET security_issues == CountIssues(results, LAMBDA i : i.category = "security")
        high_severity == CountIssues(results, LAMBDA i : i.severity = "high")
    IN  [total_issues |-> SumSeq([k \in 1..Len(results) |-> Len(results[k].issues)]),
         issues_by_category |->
            [security |-> security_issues,
             quality |-> CountIssues(results, LAMBDA i : i.category = "quality"),
             performance |-> CountIssues(results, LAMBDA i : i.category = "performance")],
         issues_by_severity |->
            [high |-> high_severity,
             medium |-> CountIssues(results, LAMBDA i : i.severity = "medium"),
             low |-> CountIssues(results, LAMBDA i : i.severity = "low")],
         languages_detected |-> [k \in 1..Len(langs) |-> langs[k].language],
         most_common_language |-> MostCommonLanguage(langs),
         total_dependencies |-> BagCardinality(dependencies.direct)
                                + BagCardinality(dependencies.dev)
                                + BagCardinality(dependencies.optional),
         has_security_issues |-> security_issues > 0,
         requires_attention |-> RequiresAttention(high_severity, security_issues)]

\* the languages histogram the loop of lines 196-208 builds from the first n results
RECURSIVE LanguagesOf(_, _)
LanguagesOf(results, n) ==
    IF n = 0 THEN <<>>
    ELSE CountLanguage(LanguagesOf(results, n - 1), results[n].language)

\* lines 193-217 on results arriving in the given order: what the analysis is made of
Fold(results, dependencies) ==
    LET langs == LanguagesOf(results, Len(results))
    IN  [languages |-> langs,
         overall_scores |-> CalculateOverallScores(results),
         summary |-> GenerateSummary(results, langs, dependencies)]

NoAnalysis == [returned |-> FALSE]
NoRerun == [index |-> 0]
NoAdvice == [asked |-> FALSE]
NoProbe == [issues |-> <<>>, metrics |-> [cyclomatic_complexity |-> 0, lines_of_code |-> 0],
            security |-> 100, quality |-> 100, performance |-> 100, runs |-> 0]

\* the file under analysis in the loop, and what analyze_file does with it
Current == repo[analyzable_files[idx + 1]]
Outcome == AnalyzeFile(Current, analyzable_files[idx + 1], analyzers, now)

InLoop ==
    /\ pc = "loop"
    /\ idx < Len(analyzable_files)
    /\ Len(file_results) < FileLimit

\* line 185; os.walk of a directory that does not exist yields nothing
Discover ==
    /\ pc = "start"
    /\ all_files' = IF repo_path = "missing" THEN <<>>
                    ELSE DiscoverFiles(repo, RootPartsOf(repo_path))
    /\ pc' = "filter"
    /\ UNCHANGED <<config, review, repo, repo_path, analyzers,
                   analyzable_files, idx, file_results, languages,
                   analysis, now, rerun, probe, advice>>

\* the filter taking the whole directory, pruned files included
FilterWholeDirectory ==
    /\ pc = "filter"
    /\ analyzable_files' = SelectSeq(Indices(Len(repo)), LAMBDA i : IsAnalyzable(repo[i]))
    /\ pc' = "loop"
    /\ UNCHANGED <<config, review, repo, repo_path, analyzers,
                   all_files, idx, file_results, languages,
                   analysis, now, rerun, probe, advice>>

\* line 188
Filter ==
    /\ pc = "filter"
    /\ analyzable_files' = SelectSeq(all_files, LAMBDA i : IsAnalyzable(repo[i]))
    /\ pc' = "loop"
    /\ UNCHANGED <<config, review, repo, repo_path, analyzers,
                   all_files, idx, file_results, languages,
                   analysis, now, rerun, probe, advice>>

\* lines 202-206: analyze_file returned a result
FileAnalyzed ==
    /\ InLoop
    /\ Outcome.kind = "result"
    /\ file_results' = Append(file_results, Outcome.value)
    /\ languages' = CountLanguage(languages, Outcome.value.language)
    /\ idx' = idx + 1
    /\ now' = now + 1
    /\ UNCHANGED <<config, review, repo, repo_path, analyzers,
                   pc, all_files, analyzable_files, analysis, rerun, probe, advice>>

\* lines 202-203: analyze_file returned None
FileSkipped ==
    /\ InLoop
    /\ Outcome.kind = "none"
    /\ idx' = idx + 1
    /\ now' = now + 1
    /\ UNCHANGED <<config, review, repo, repo_path, analyzers,
                   pc, all_files, analyzable_files, file_results,
                   languages, analysis, rerun, probe, advice>>

\* the exception leaving analyze_repository
AfterFileErrorPropagates == "failed"

\* where analyze_repository goes on after "except Exception as e" of line 207
AfterFileError == "loop"

\* lines 207-208: analyze_file raised
FileFailed ==
    /\ InLoop
    /\ Outcome.kind = "raise"
    /\ pc' = AfterFileError
    /\ idx' = idx + 1
    /\ now' = now + 1
    /\ UNCHANGED <<config, review, repo, repo_path, analyzers,
                   all_files, analyzable_files, file_results,
                   languages, analysis, rerun, probe, advice>>

\* lines 197-199: the limit is reached with files left
LimitReached ==
    /\ pc = "loop"
    /\ idx < Len(analyzable_files)
    /\ Len(file_results) >= FileLimit
    /\ pc' = "aggregate"
    /\ UNCHANGED <<config, review, repo, repo_path, analyzers,
                   all_files, analyzable_files, idx, file_results,
                   languages, analysis, now, rerun, probe, advice>>

\* the for loop ran out of files
LoopExhausted ==
    /\ pc = "loop"
    /\ idx = Len(analyzable_files)
    /\ pc' = "aggregate"
    /\ UNCHANGED <<config, review, repo, repo_path, analyzers,
                   all_files, analyzable_files, idx, file_results,
                   languages, analysis, now, rerun, probe, advice>>

\* lines 210-234
Aggregate ==
    /\ pc = "aggregate"
    /\ analysis' = [returned |-> TRUE,
                    total_files |-> Len(all_files),
                    analyzed_files |-> Len(file_results),
                    languages |-> languages,
                    overall_scores |-> CalculateOverallScores(file_results),
                    file_results |-> file_results,
                    dependencies |-> AnalyzeDependencies(repo_path, repo),
                    summary |-> GenerateSummary(file_results, languages,
                                                AnalyzeDependencies(repo_path, repo)),
                    timestamp |-> now]
    /\ pc' = "done"
    /\ now' = now + 1
    /\ UNCHANGED <<config, review, repo, repo_path, analyzers,
                   all_files, analyzable_files, idx, file_results,
                   languages, rerun, probe, advice>>

\* one call of analyze_repository, from its entry to its return
Analyze ==
    \/ Discover
    \/ Filter
    \/ FileAnalyzed
    \/ FileSkipped
    \/ FileFailed
    \/ LimitReached
    \/ LoopExhausted
    \/ Aggregate

\* later calls are made on the first MaxRerun files of the analysis
MaxRerun == 3

\* the file at a later call: a file that disappeared is still gone
Later(f) == IF f.vanish = "never" THEN f ELSE [f EXCEPT !.vanish = "before_analysis"]

\* a later analyze_file call on a file of the returned analysis, its content
\* unchanged (tools/__init__.py 421 calls analyze_file directly)
Reanalyze ==
    /\ pc = "done"
    /\ rerun = NoRerun
    /\ ~review.asked
    /\ \E k \in 1..Min(Len(analysis.file_results), MaxRerun) :
          LET path == analysis.file_results[k].file_path
          IN  rerun' = [index |-> k,
                        again |-> AnalyzeFile(Later(repo[path]), path,
                                              analyzers, now)]
    /\ now' = now + 1
    /\ UNCHANGED <<config, review, repo, repo_path, analyzers,
                   pc, all_files, analyzable_files, idx, file_results,
                   languages, analysis, probe, advice>>

----------------------------------------------------------------------------
(* The configuration toggles and the protocol tool layer *)

\* ENABLE_SECURITY_SCAN and ENABLE_PERFORMANCE_SCAN, read from the environment
Configurations ==
    [ENABLE_SECURITY_SCAN : BOOLEAN, ENABLE_PERFORMANCE_SCAN : BOOLEAN]

\* both default to 'true'
DefaultConfig == [ENABLE_SECURITY_SCAN |-> TRUE, ENABLE_PERFORMANCE_SCAN |-> TRUE]

NoReview == [asked |-> FALSE]

\* the enum of analysis_type in the schema of analyze_repository
AnalysisTypes == {"full", "security", "quality", "performance"}

\* the filter of _analyze_repository on the object analyze_repository returned:
\* each file result with an issue of the category keeps only those issues, the
\* others are dropped from file_results; nothing else of the object is written
FilterResults(analysis_result, analysis_type) ==
    IF analysis_type = "full" THEN analysis_result
    ELSE LET kept(r) == SelectCategory(r.issues, analysis_type)
             filtered_results ==
                SelectSeq([k \in 1..Len(analysis_result.file_results) |->
                             [analysis_result.file_results[k] EXCEPT
                                 !.issues = kept(analysis_result.file_results[k])]],
                          LAMBDA r : r.issues # <<>>)
         IN  [analysis_result EXCEPT !.file_results = filtered_results]

\* _analyze_repository of the tool layer, after analyze_repository has returned;
\* analysis keeps the object as it was returned, review holds it as it is now.
\* One later call is followed after an analysis: this one or that of Reanalyze.
ToolAnalyzeRepository ==
    /\ pc = "done"
    /\ ~review.asked
    /\ rerun = NoRerun
    /\ \E analysis_type \in AnalysisTypes :
          review' = [asked |-> TRUE,
                     analysis_type |-> analysis_type,
                     analysis_result |-> FilterResults(analysis, analysis_type)]
    /\ UNCHANGED <<config, repo, repo_path, analyzers, pc, all_files, analyzable_files,
                   idx, file_results, languages, analysis, now, rerun, probe, advice>>

----------------------------------------------------------------------------
(* The scoring functions called directly on drawn issue lists and metrics *)

MaxProbeRuns == 2
BulkRun == 9

ProbeCategories == {"security", "quality", "performance"}
ProbeSeverities == {"high", "medium", "low", "undefined"}
ProbeComplexities == {0, 10, 11, 16, 30, 31}
ProbeLinesOfCode == {0, 500, 501, 599, 600, 1499, 1500, 5000}

Scored(issues, metrics, runs) ==
    [issues |-> issues, metrics |-> metrics,
     security |-> CalculateSecurityScore(issues, metrics),
     quality |-> CalculateQualityScore(issues, metrics),
     performance |-> CalculatePerformanceScore(issues, metrics),
     runs |-> runs]

\* n more issues of one category and severity, then the three scores
ProbeAppend ==
    /\ probe.runs < MaxProbeRuns
    /\ \E c \in ProbeCategories, v \in ProbeSeverities, n \in {1, BulkRun} :
          probe' = Scored(probe.issues \o Rep(Issue(c, "probe", v, 0, "probe"), n),
                          probe.metrics, probe.runs + 1)
    /\ UNCHANGED repoVars

----------------------------------------------------------------------------
(* Repository-level suggestions: tools/__init__.py 913-947, called directly on *)
(* drawn analysis results                                                      *)

\* a mean compared with <= in place of <
AtMost(mean, threshold) == mean.num <= threshold * mean.den

\* overall_scores.get(...) < threshold, on a mean kept as a fraction
Below(mean, threshold) == mean.num < threshold * mean.den

RepositorySuggestion(type, priority) ==
    [type |-> type, priority |-> priority, category |-> "repository"]

NoFocus == "None"

\* _generate_repository_suggestions(analysis_result, focus_area)
GenerateRepositorySuggestions(analysis_result, focus_area) ==
    LET suggestions ==
            When(Below(analysis_result.overall_scores.security, 70),
                 RepositorySuggestion("security", "high"))
         \o When(Below(analysis_result.overall_scores.quality, 60),
                 RepositorySuggestion("quality", "medium"))
         \o When(analysis_result.analyzed_files > 200,
                 RepositorySuggestion("maintainability", "medium"))
    IN  IF focus_area # NoFocus
        THEN SelectSeq(suggestions, LAMBDA x : x.type = focus_area)
        ELSE suggestions

AdviceFileCounts == {0, 1, 3, 100, 200, 201}
FocusAreas == {NoFocus, "security", "quality", "maintainability", "performance"}

\* the mean of n scores in 0..100 on either side of a threshold; 0.0 without scores
MeansAround(threshold, n) ==
    IF n = 0 THEN {Fraction(0, 1)}
    ELSE {Fraction(total, n) :
             total \in {0, threshold * n - 1, threshold * n, threshold * n + 1, 100 * n}}

\* one call of _generate_repository_suggestions
RepositoryAdvice ==
    /\ ~advice.asked
    /\ \E n \in AdviceFileCounts, focus_area \in FocusAreas :
       \E security \in MeansAround(70, n), quality \in MeansAround(60, n) :
          LET analysis_result ==
                 [overall_scores |-> [security |-> security, quality |-> quality,
                                      performance |-> Fraction(100 * n, Max(n, 1))],
                  analyzed_files |-> n]
          IN  advice' = [asked |-> TRUE,
                         analysis_result |-> analysis_result,
                         focus_area |-> focus_area,
                         suggestions |->
                            GenerateRepositorySuggestions(analysis_result, focus_area)]
    /\ UNCHANGED <<config, review, repo, repo_path, analyzers,
                   pc, all_files, analyzable_files, idx,
                   file_results, languages, analysis, now, rerun, probe>>

----------------------------------------------------------------------------
(* Specifications *)

MaxSmallFiles == 3
MaxStride == 1
CapScenarioFiles == 150
ManyFiles == 201

NumKinds == Len(KindOrder)

\* a directory of n files: the kinds from start on, every stride-th
RepoOf(start, stride, n) ==
    [i \in 1..n |-> File(KindOrder[((start - 1 + (i - 1) * stride) % NumKinds) + 1])]

\* os.walk lists the files of the root before those of its subdirectories
WalkOrdered(dir) ==
    \A i, j \in 1..Len(dir) : i < j /\ dir[i].dirs # <<>> => dir[j].dirs # <<>>

SmallRepos ==
    {dir \in {RepoOf(s, d, n) : s \in 1..NumKinds, d \in 0..MaxStride,
                                n \in 0..MaxSmallFiles} : WalkOrdered(dir)}

\* a large directory of n files: plain files, but for the one in place FileLimit
CrowdOf(kind, n) ==
    [i \in 1..n |-> IF i = FileLimit THEN File(kind) ELSE File("clean_go")]

BigRepos ==
    {dir \in {CrowdOf(k, n) : k \in Kinds,
                              n \in {FileLimit, FileLimit + 1, CapScenarioFiles}} :
        WalkOrdered(dir)}
    \cup {CrowdOf("clean_go", ManyFiles)}

\* the external tools _setup_analyzers may find, among those consulted later
ToolKeys == {"python_security", "ansible_lint", "yaml_lint"}

\* a directory that does not exist holds no file
Init ==
    /\ \/ /\ repo \in SmallRepos /\ repo_path = "present"
          /\ \/ analyzers \in SUBSET ToolKeys /\ config = DefaultConfig
             \/ analyzers = {} /\ config \in Configurations
       \/ repo \in BigRepos /\ repo_path = "present" /\ analyzers = {}
             /\ config = DefaultConfig
       \/ repo \in SmallRepos /\ repo_path = "under_build" /\ analyzers = {}
             /\ config = DefaultConfig
       \/ repo = <<>> /\ repo_path = "missing" /\ analyzers \in SUBSET ToolKeys
             /\ config = DefaultConfig
    /\ review = NoReview
    /\ pc = "start"
    /\ all_files = <<>>
    /\ analyzable_files = <<>>
    /\ idx = 0
    /\ file_results = <<>>
    /\ languages = <<>>
    /\ analysis = NoAnalysis
    /\ now = 0
    /\ rerun = NoRerun
    /\ probe = NoProbe
    /\ advice = NoAdvice

Next ==
    \/ Analyze
    \/ Reanalyze
    \/ ToolAnalyzeRepository

Spec == Init /\ [][Next]_vars

InitScore ==
    /\ repo = <<>>
    /\ config = DefaultConfig
    /\ review = NoReview
    /\ repo_path = "present"
    /\ analyzers = {}
    /\ advice = NoAdvice
    /\ pc = "idle"
    /\ all_files = <<>>
    /\ analyzable_files = <<>>
    /\ idx = 0
    /\ file_results = <<>>
    /\ languages = <<>>
    /\ analysis = NoAnalysis
    /\ now = 0
    /\ rerun = NoRerun
    /\ \E c \in ProbeComplexities, l \in ProbeLinesOfCode :
          probe = Scored(<<>>, [cyclomatic_complexity |-> c, lines_of_code |-> l], 0)

NextScore == ProbeAppend

SpecScore == InitScore /\ [][NextScore]_vars

InitAdvice ==
    /\ repo = <<>>
    /\ config = DefaultConfig
    /\ review = NoReview
    /\ repo_path = "present"
    /\ analyzers = {}
    /\ pc = "idle"
    /\ all_files = <<>>
    /\ analyzable_files = <<>>
    /\ idx = 0
    /\ file_results = <<>>
    /\ languages = <<>>
    /\ analysis = NoAnalysis
    /\ now = 0
    /\ rerun = NoRerun
    /\ probe = NoProbe
    /\ advice = NoAdvice

NextAdvice == RepositoryAdvice

SpecAdvice == InitAdvice /\ [][NextAdvice]_vars

----------------------------------------------------------------------------
(* Properties *)

Categories == {"security", "quality", "performance"}

ScoreOf(r, c) ==
    IF c = "security" THEN r.security_score
    ELSE IF c = "quality" THEN r.quality_score ELSE r.performance_score

HasIssueOf(r, c) == \E k \in 1..Len(r.issues) : r.issues[k].category = c

\* every file result the program holds: collected, returned, or from a later call
FileResults ==
    {file_results[k] : k \in 1..Len(file_results)}
    \cup (IF rerun.index # 0 /\ rerun.again.kind = "result" THEN {rerun.again.value} ELSE {})

\* C1: each of the three scores of every file result lies in [0,100], and so does
\* each overall score of a returned repository analysis.
C1_ScoresWithinBounds ==
    /\ \A r \in FileResults : \A c \in Categories : ScoreOf(r, c) >= 0 /\ ScoreOf(r, c) <= 100
    /\ analysis.returned =>
          \A c \in Categories :
             LET mean == analysis.overall_scores[c]
             IN  mean.den >= 1 /\ mean.num >= 0 /\ mean.num <= 100 * mean.den

\* a returned analysis holding a file whose quality penalties exceed 100
C1_Witness ==
    /\ analysis.returned
    /\ \E k \in 1..Len(analysis.file_results) :
          LET r == analysis.file_results[k]
          IN  r.quality_score = 0 /\ Len(SelectCategory(r.issues, "quality")) > 40

\* C2 as stated: a file result without an issue of a category scores exactly 100 in
\* that category.
C2_NoIssueMeansFullScore ==
    \A r \in FileResults : \A c \in Categories : ~HasIssueOf(r, c) => ScoreOf(r, c) = 100

\* C2, amended: without a security issue the security score is 100, without a
\* performance issue the performance score is 100, and without a quality issue the
\* quality score is 100 less the complexity penalty and the size penalty.
C2_NoIssueScore ==
    \A r \in FileResults :
       LET complexity == r.metrics.cyclomatic_complexity
           lines_of_code == r.metrics.lines_of_code
           complexity_penalty == IF complexity > 10 THEN Min(20, complexity - 10) ELSE 0
           size_penalty ==
               IF lines_of_code > 500 THEN Min(10, (lines_of_code - 500) \div 100) ELSE 0
       IN  /\ ~HasIssueOf(r, "security") => r.security_score = 100
           /\ ~HasIssueOf(r, "performance") => r.performance_score = 100
           /\ ~HasIssueOf(r, "quality") =>
                 /\ r.quality_score = 100 - complexity_penalty - size_penalty
                 /\ r.quality_score = 100 <=> complexity <= 10 /\ lines_of_code < 600

\* a returned analysis with a file free of issues whose quality score is below 100
C2_Witness ==
    /\ analysis.returned
    /\ \E k \in 1..Len(analysis.file_results) :
          LET r == analysis.file_results[k]
          IN  r.issues = <<>> /\ r.metrics.cyclomatic_complexity > 10 /\ r.quality_score < 100

\* the penalty of the security score for one issue, as claimed
ClaimedSecurityPenalty(issue) ==
    IF issue.category # "security" THEN 0
    ELSE IF issue.severity = "high" THEN 20
    ELSE IF issue.severity = "medium" THEN 10 ELSE 5

\* C3 as stated: the security score of a file result is max(0, 100 - penalties), the
\* penalties summed over all and only the security issues of the result's issue list.
C3_SecurityScoreCountsAllSecurityIssues ==
    \A r \in FileResults :
       r.security_score =
          Max(0, 100 - SumSeq([k \in 1..Len(r.issues) |-> ClaimedSecurityPenalty(r.issues[k])]))

\* the penalty of the quality score for one issue, as claimed
ClaimedQualityPenalty(issue) ==
    IF issue.category # "quality" THEN 0
    ELSE IF issue.severity = "high" THEN 15
    ELSE IF issue.severity = "medium" THEN 8 ELSE 3

\* the issue list's quality issues are of the three severities the claim names
NamedSeverities(issues) ==
    \A k \in 1..Len(issues) :
       issues[k].category = "quality" => issues[k].severity \in {"high", "medium", "low"}

\* C4: for every issue list and metric set the quality score is
\* max(0, 100 - quality penalties - complexity penalty - size penalty).
C4_QualityScoreFormula ==
    NamedSeverities(probe.issues) =>
       LET complexity == probe.metrics.cyclomatic_complexity
           lines_of_code == probe.metrics.lines_of_code
           complexity_penalty == IF complexity > 10 THEN Min(20, complexity - 10) ELSE 0
           size_penalty ==
               IF lines_of_code > 500 THEN Min(10, (lines_of_code - 500) \div 100) ELSE 0
           penalty ==
               SumSeq([k \in 1..Len(probe.issues) |-> ClaimedQualityPenalty(probe.issues[k])])
       IN  probe.quality = Max(0, 100 - penalty - complexity_penalty - size_penalty)

\* nine medium quality issues, complexity 10 and 500 lines of code: 28
C4_Witness ==
    /\ probe.runs = 1
    /\ Len(probe.issues) = 9
    /\ \A k \in 1..9 : probe.issues[k].category = "quality" /\ probe.issues[k].severity = "medium"
    /\ probe.metrics.cyclomatic_complexity = 10
    /\ probe.metrics.lines_of_code = 500
    /\ probe.quality = 28

\* C5: each overall score of a returned analysis is the unweighted mean of that
\* score over the file results in file_results, and 0 when there is none; an empty
\* directory gives total_files = 0, analyzed_files = 0 and the three scores 0.
C5_OverallScoresAreMeans ==
    analysis.returned =>
       LET results == analysis.file_results
           n == Len(results)
       IN  /\ \A c \in Categories :
                LET mean == analysis.overall_scores[c]
                IN  IF n = 0 THEN mean.num = 0 /\ mean.den >= 1
                    ELSE /\ mean.num = SumSeq([k \in 1..n |-> ScoreOf(results[k], c)])
                         /\ mean.den = n
           /\ repo = <<>> =>
                 /\ analysis.total_files = 0
                 /\ analysis.analyzed_files = 0
                 /\ \A c \in Categories : analysis.overall_scores[c].num = 0

\* a returned analysis of several files whose mean quality score is no whole number
C5_Witness ==
    /\ analysis.returned
    /\ Len(analysis.file_results) >= 2
    /\ analysis.overall_scores.quality.num % Len(analysis.file_results) # 0

\* what analyze_file does with the i-th analyzable file
Attempt(i) == AnalyzeFile(repo[analyzable_files[i]], analyzable_files[i], analyzers, 0)

\* C6: in a returned analysis analyzed_files <= total_files, and analyzed_files = 0
\* when total_files = 0, whatever files succeed, are skipped or raise.
C6_AnalyzedWithinTotal ==
    analysis.returned =>
       /\ analysis.analyzed_files <= analysis.total_files
       /\ analysis.total_files = 0 => analysis.analyzed_files = 0

\* a returned analysis in which one file succeeded, one was skipped and one raised
C6_Witness ==
    /\ analysis.returned
    /\ \E i, j, k \in 1..idx :
          /\ Attempt(i).kind = "result"
          /\ Attempt(j).kind = "none"
          /\ Attempt(k).kind = "raise"

\* binary as the claim has it: a null byte in the first 1 KiB, a MIME guess that is
\* not text, or a file that cannot be read
DetectedBinary(f) == f.null_byte \/ f.mime = "other" \/ ~f.readable

RegisteredExtensions ==
    UNION {SupportedLanguages[k].extensions : k \in 1..Len(SupportedLanguages)}

\* C7: no file detected as binary and no file whose lower-cased extension is not in
\* the language registry is ever in file_results or counted in analyzed_files.
C7_OnlyAnalyzableFilesInResults ==
    /\ \A k \in 1..Len(file_results) :
          LET f == repo[file_results[k].file_path]
          IN  ~DetectedBinary(f) /\ f.ext \in RegisteredExtensions
    /\ analysis.returned =>
          /\ analysis.file_results = file_results
          /\ analysis.analyzed_files = Len(file_results)

\* a returned analysis of a directory with a binary file of a registered extension, a
\* file of an unregistered extension and an analyzed file
C7_Witness ==
    /\ analysis.returned
    /\ analysis.analyzed_files > 0
    /\ \E i, j \in 1..Len(all_files) :
          /\ DetectedBinary(repo[all_files[i]])
          /\ repo[all_files[i]].ext \in RegisteredExtensions
          /\ repo[all_files[j]].ext \notin RegisteredExtensions

\* C8 as stated: analysis runs on the first min(N, 100) analyzable files and on no
\* later one; with 150 analyzable files analyzed_files = 100.
C8_FirstHundredAnalyzable ==
    analysis.returned =>
       /\ idx = Min(Len(analyzable_files), 100)
       /\ Len(analyzable_files) = 150 => analysis.analyzed_files = 100

\* C8, amended: analysis runs on the analyzable files in discovery order until 100 of
\* them have given a result or none is left, and on no later file; the results are
\* those of the files that gave one, in that order; 150 analyzable files that all
\* give a result leave exactly the first 100 analyzed.
C8_StopsAtHundredResults ==
    analysis.returned =>
       LET N == Len(analyzable_files)
           yields == [i \in 1..N |-> Attempt(i).kind = "result"]
           yielding(n) == SelectSeq(SubSeq(Indices(N), 1, n), LAMBDA i : yields[i])
           given == yielding(idx)
       IN  /\ Len(analysis.file_results) = Len(given)
           /\ \A k \in 1..Len(given) :
                 analysis.file_results[k].file_path = analyzable_files[given[k]]
           /\ analysis.analyzed_files = Min(100, Len(yielding(N)))
           /\ idx = N \/ (Len(given) = 100 /\ yields[idx])
           /\ N = 150 /\ Len(yielding(N)) = N =>
                 idx = 100 /\ analysis.analyzed_files = 100

\* a returned analysis of more than 100 analyzable files in which a file among the
\* first 100 gave no result and the 101st was analyzed
C8_Witness ==
    /\ analysis.returned
    /\ Len(analyzable_files) > 101
    /\ idx = 101
    /\ analysis.analyzed_files = 100
    /\ analysis.file_results[100].file_path = analyzable_files[101]

\* the places of analyze_repository's control
Places == {"start", "filter", "loop", "aggregate", "done"}

\* C9: when analyze_file raises on a file, analyze_repository still returns an
\* analysis: control never leaves its places, the step on which the file raises leaves
\* control in the loop at the next file with the results untouched, the failing
\* file is in no file result of the returned analysis, and every file result is what
\* analyze_file gives for that file on its own.
C9_FileErrorsAreContained ==
    /\ [](/\ pc \in Places
          /\ analysis.returned =>
                /\ \A i \in 1..idx :
                      Attempt(i).kind = "raise" =>
                         \A k \in 1..Len(analysis.file_results) :
                            analysis.file_results[k].file_path # analyzable_files[i]
                /\ \A k \in 1..Len(analysis.file_results) :
                      LET r == analysis.file_results[k]
                      IN  AnalyzeFile(repo[r.file_path], r.file_path, analyzers, r.timestamp)
                             = [kind |-> "result", value |-> r])
    /\ [][InLoop /\ Outcome.kind = "raise" =>
             pc' = "loop" /\ idx' = idx + 1 /\ file_results' = file_results]_vars

\* a returned analysis in which a file raised and a later file was analyzed
C9_Witness ==
    /\ analysis.returned
    /\ \E i \in 1..idx :
          /\ Attempt(i).kind = "raise"
          /\ \E k \in 1..Len(analysis.file_results) :
                \E j \in (i + 1)..idx :
                   analysis.file_results[k].file_path = analyzable_files[j]

\* a file result but for its timestamp
Untimed(r) == [r EXCEPT !.timestamp = 0]

\* the file of the later call, and whether it is still what it was
Recalled == repo[analysis.file_results[rerun.index].file_path]

----------------------------------------------------------------------------
(* Discovery and the exclusion set *)

\* the directory names of the exclusion set that hold no wildcard
ExcludedNames ==
    {"__pycache__", "node_modules", ".git", ".vscode", ".idea",
     "venv", "env", ".venv", "dist", "build"}

\* the file lies beneath a directory whose name is in the exclusion set or matches
\* one of its wildcard patterns
BeneathExcluded(f) ==
    \E k \in 1..Len(f.dirs) : f.dirs[k] \in ExcludedNames \/ f.dirglobs[k] # {}

\* C11: once discovery has run, no file beneath a directory whose name matches the
\* exclusion set is in the discovered list, and total_files counts none of them; a
\* root whose files all lie beneath excluded directories gives total_files = 0.
C11_ExcludedDirectoriesArePruned ==
    /\ pc # "start" =>
          \A k \in 1..Len(all_files) : ~BeneathExcluded(repo[all_files[k]])
    /\ analysis.returned =>
          /\ analysis.total_files
                <= Cardinality({i \in 1..Len(repo) : ~BeneathExcluded(repo[i])})
          /\ (\A i \in 1..Len(repo) : BeneathExcluded(repo[i])) => analysis.total_files = 0

\* a returned analysis of a root that holds nothing but one excluded directory with
\* source files in it
C11_Witness ==
    /\ analysis.returned
    /\ Len(repo) > 1
    /\ \A i \in 1..Len(repo) :
          /\ repo[i].dirs # <<>> /\ repo[i].dirs[1] = "node_modules"
          /\ repo[i].ext = ".js"
    /\ analysis.total_files = 0

----------------------------------------------------------------------------
(* Faults of the caller and faults of the scan *)

\* C12: analyze_repository called on a root path that does not exist fails with an
\* error for the caller and returns no RepositoryAnalysis; under every other fault
\* (file unreadable, binary or oversized, unparseable source, rule or tool fault,
\* unreadable manifest) the scan is not aborted.
C12_MissingRootIsFatal ==
    /\ repo_path = "missing" => ~analysis.returned
    /\ repo_path # "missing" => pc \in Places

----------------------------------------------------------------------------
(* The fold of the file results *)

Orders(n) ==
    {p \in [1..n -> 1..n] : \A i, j \in 1..n : p[i] = p[j] => i = j}

\* what of a fold does not name an order: the histogram as a set of counts, the
\* overall scores, and the summary with its list of languages taken as a set
Statistics(fold) ==
    [histogram |-> {<<fold.languages[k].language, fold.languages[k].count>> :
                       k \in 1..Len(fold.languages)},
     overall_scores |-> fold.overall_scores,
     summary |-> [fold.summary EXCEPT !.languages_detected = {@[k] : k \in DOMAIN @}]]

\* C13: folding the file results of a returned analysis in any other order gives the
\* same language histogram, the same overall scores and the same summary statistics,
\* most_common_language and requires_attention included (directories of up to
\* MaxSmallFiles results).
C13_FoldIsOrderIndependent ==
    analysis.returned /\ Len(analysis.file_results) <= MaxSmallFiles =>
       LET results == analysis.file_results
           n == Len(results)
       IN  \A p \in Orders(n) :
              Statistics(Fold([k \in 1..n |-> results[p[k]]], analysis.dependencies))
                 = Statistics([languages |-> analysis.languages,
                               overall_scores |-> analysis.overall_scores,
                               summary |-> analysis.summary])

----------------------------------------------------------------------------
(* The summary *)

\* issues counted by their places <<k, j>>: issue j of file result k
HighSeverityCount(results) ==
    Cardinality(UNION {{<<k, j>> : j \in {i \in 1..Len(results[k].issues) :
                                             results[k].issues[i].severity = "high"}} :
                       k \in 1..Len(results)})

SecurityCount(results) ==
    Cardinality(UNION {{<<k, j>> : j \in {i \in 1..Len(results[k].issues) :
                                             results[k].issues[i].category = "security"}} :
                       k \in 1..Len(results)})

\* C14: in a returned analysis requires_attention is true exactly when the file
\* results hold a high-severity issue or more than 5 security issues,
\* most_common_language is a language no other exceeds in the histogram, and with
\* no file result requires_attention is false.
C14_SummaryFlags ==
    analysis.returned =>
       LET results == analysis.file_results
           langs == analysis.languages
       IN  /\ analysis.summary.requires_attention
                <=> (HighSeverityCount(results) > 0 \/ SecurityCount(results) > 5)
           /\ langs # <<>> =>
                 \E k \in 1..Len(langs) :
                    /\ langs[k].language = analysis.summary.most_common_language
                    /\ \A j \in 1..Len(langs) : langs[j].count <= langs[k].count
           /\ results = <<>> => ~analysis.summary.requires_attention

\* a returned analysis that requires attention for its more than 5 security issues,
\* none of them of high severity
C14_Witness ==
    /\ analysis.returned
    /\ analysis.summary.requires_attention
    /\ HighSeverityCount(analysis.file_results) = 0
    /\ SecurityCount(analysis.file_results) > 5

----------------------------------------------------------------------------
(* Python sources that do not parse *)

\* a Python file that analyze_file reads to its end and ast.parse rejects
Unparseable(f) ==
    /\ IsAnalyzable(f)
    /\ f.vanish = "never"
    /\ f.size <= MAX_FILE_SIZE
    /\ DetectLanguage(f) = "python"
    /\ ~f.ast.ok

\* the results of the returned analysis for the file in place i of the directory
ResultsOf(i) ==
    {k \in 1..Len(analysis.file_results) : analysis.file_results[k].file_path = i}

SyntaxErrors(r) == {j \in 1..Len(r.issues) : r.issues[j].type = "syntax_error"}

\* C15: a Python file whose content does not parse is still in the results of the
\* returned analysis (directories below the file limit), and its issue list holds
\* exactly one issue of type syntax_error, of category quality and severity high.
C15_UnparseableFileKeepsOneSyntaxError ==
    analysis.returned /\ Len(repo) < FileLimit =>
       \A n \in 1..Len(analyzable_files) :
          LET i == analyzable_files[n]
          IN  Unparseable(repo[i]) =>
                 /\ Cardinality(ResultsOf(i)) = 1
                 /\ \A k \in ResultsOf(i) :
                       LET r == analysis.file_results[k]
                       IN  /\ Cardinality(SyntaxErrors(r)) = 1
                           /\ \A j \in SyntaxErrors(r) :
                                 /\ r.issues[j].category = "quality"
                                 /\ r.issues[j].severity = "high"

\* C16: for a Python file whose content does not parse, the complexity and the
\* function count come from the line-level approximation and are not left at zero:
\* with a decision keyword in the content the complexity is above zero, and with a
\* function declaration the function count is above zero.
C16_UnparseableFileHasApproximateMetrics ==
    \A r \in FileResults :
       LET f == repo[r.file_path]
       IN  Unparseable(f) =>
              /\ ContentHas(f, "text_decision") => r.metrics.cyclomatic_complexity > 0
              /\ ContentHas(f, "text_def") => r.metrics.functions > 0

----------------------------------------------------------------------------
(* The credential rules *)

CredentialTypes ==
    {"hardcoded_password", "hardcoded_api_key", "hardcoded_secret", "hardcoded_token"}

\* a credential rule fired on line i of the file of result r
CredentialRuleFired(r, i) ==
    \E j \in 1..Len(r.issues) :
       /\ r.issues[j].tool = "pattern_analysis"
       /\ r.issues[j].type \in CredentialTypes
       /\ r.issues[j].line = i

\* C17: in every analyzed file, whatever its language, a credential rule fires on a
\* line exactly when the line holds password, api_key, secret or token followed by
\* '=' or ':' and a quoted literal of at least 8 characters; a shorter literal gives
\* no issue.
C17_CredentialRuleFiresOnLongLiterals ==
    \A r \in FileResults :
       LET f == repo[r.file_path]
       IN  f.vanish = "never" /\ f.readable =>
              \A i \in 1..Len(f.lines) :
                 CredentialRuleFired(r, i) <=> Has(f, i, "text_credential_literal")

----------------------------------------------------------------------------
(* The suggestions of a file *)

\* C18: a file result with an issue of a hardcoded-credential type (password, API
\* key, secret or token, the secret found by the YAML rules included) carries the
\* high-priority secrets-management suggestion, and no suggestion is twice in a
\* file's suggestion list.
C18_CredentialIssuesGetSecretsSuggestion ==
    \A r \in FileResults :
       /\ (\E j \in 1..Len(r.issues) : r.issues[j].type \in CredentialTypes) =>
             \E k \in 1..Len(r.suggestions) :
                r.suggestions[k] = Suggestion("security", "high", "best_practices")
       /\ \A a, b \in 1..Len(r.suggestions) :
             r.suggestions[a] = r.suggestions[b] => a = b

----------------------------------------------------------------------------
(* The suggestions of a repository *)

Advised(type, priority) ==
    \E k \in 1..Len(advice.suggestions) :
       advice.suggestions[k] = RepositorySuggestion(type, priority)

\* C19: without a focus area the repository-level suggestions hold the security
\* process suggestion exactly when the overall security score is below 70, the
\* quality-gate suggestion exactly when the overall quality score is below 60, and
\* the modularization suggestion exactly when more than 200 files were analyzed.
C19_RepositorySuggestionThresholds ==
    advice.asked /\ advice.focus_area = NoFocus =>
       LET scores == advice.analysis_result.overall_scores
       IN  /\ Advised("security", "high") <=> ~(scores.security.num >= 70 * scores.security.den)
           /\ Advised("quality", "medium") <=> ~(scores.quality.num >= 60 * scores.quality.den)
           /\ Advised("maintainability", "medium")
                 <=> ~(advice.analysis_result.analyzed_files <= 200)

\* a call without focus area that gives the three suggestions
C19_Witness ==
    /\ advice.asked
    /\ advice.focus_area = NoFocus
    /\ advice.analysis_result.analyzed_files > 200
    /\ Len(advice.suggestions) = 3

----------------------------------------------------------------------------
(* Faults of the external tools *)

\* the external tools that analyze_file runs on f with the registered tools and
\* that fail: the process cannot be started, times out or writes output the
\* runner cannot read
FailedTools(f, tools) ==
    LET language == DetectLanguage(f)
    IN  {x \in {"bandit"} :
            language = "python" /\ "python_security" \in tools
               /\ f.bandit.status \in {"caught", "uncaught"}}
        \cup {x \in {"ansible-lint"} :
            language = "yaml" /\ "ansible_lint" \in tools /\ IsAnsibleFile(f)
               /\ f.ansible_lint.status \in {"caught", "uncaught"}}
        \cup {x \in {"yamllint"} :
            language = "yaml" /\ "yaml_lint" \in tools
               /\ f.yamllint.status \in {"caught", "uncaught"}}

ExternalTools == {"bandit", "ansible-lint", "yamllint"}

\* the issues of r that no external tool reported
PatternIssues(r) == SelectSeq(r.issues, LAMBDA x : x.tool \notin ExternalTools)

\* C20: when an external tool fails on a file that the pattern analyses alone can
\* analyse, the file keeps its one result in the returned analysis (directories
\* below the file limit), that result holds no issue of a failed tool, and its
\* issues that come from the pattern analyses are those found with no tool
\* registered.
C20_ToolFailureLeavesPatternResults ==
    analysis.returned /\ Len(repo) < FileLimit =>
       \A n \in 1..Len(analyzable_files) :
          LET i == analyzable_files[n]
              f == repo[i]
              alone == AnalyzeFile(f, i, {}, 0)
          IN  FailedTools(f, analyzers) # {} /\ f.readable /\ alone.kind = "result" =>
                 /\ Cardinality(ResultsOf(i)) = 1
                 /\ \A k \in ResultsOf(i) :
                       LET r == analysis.file_results[k]
                       IN  /\ \A j \in 1..Len(r.issues) :
                                 r.issues[j].tool \notin FailedTools(f, analyzers)
                           /\ PatternIssues(r) = alone.value.issues

----------------------------------------------------------------------------
(* Dependency manifests *)

DependencyKeys == {"direct", "dev", "optional"}

\* the manifests that _analyze_dependencies finds in the root of the directory
ManifestsAtRoot ==
    {i \in 1..Len(repo) :
        /\ repo[i].dirs = <<>>
        /\ \E k \in 1..Len(DepFiles) : repo[i].name = DepFiles[k]
        /\ repo[i].vanish = "never"}

\* a manifest that cannot be opened, or on which its parser raises
Unparsed(f) == ~f.readable \/ f.deps.raised

\* C21: in the returned analysis each of the three dependency lists holds no name
\* twice and holds exactly the names that the manifests at the root list under that
\* key, where a manifest that cannot be read or parsed contributes no name.
C21_DependenciesAreMergedWithoutDuplicates ==
    analysis.returned /\ repo_path # "missing" =>
       \A key \in DependencyKeys :
          LET listed == analysis.dependencies[key]
          IN  /\ \A x \in BagToSet(listed) : CopiesIn(x, listed) = 1
              /\ BagToSet(listed) =
                    UNION {{repo[i].deps[key][j] : j \in 1..Len(repo[i].deps[key])} :
                              i \in {m \in ManifestsAtRoot : ~Unparsed(repo[m])}}

----------------------------------------------------------------------------
(* Scan toggles *)

\* the categories switched off in the configuration
DisabledCategories ==
    {c \in {"security"} : ~config.ENABLE_SECURITY_SCAN}
    \cup {c \in {"performance"} : ~config.ENABLE_PERFORMANCE_SCAN}

\* C22: no file result produced by analyze_file holds an issue of a category that
\* the configuration switches off, and an analysis asked for with one category
\* holds issues of that category only.
C22_ScanTogglesAreHonoured ==
    /\ \A r \in FileResults :
          \A j \in 1..Len(r.issues) : r.issues[j].category \notin DisabledCategories
    /\ review.asked /\ review.analysis_type # "full" =>
          \A k \in 1..Len(review.analysis_result.file_results) :
             LET r == review.analysis_result.file_results[k]
             IN  \A j \in 1..Len(r.issues) : r.issues[j].category = review.analysis_type

----------------------------------------------------------------------------
(* File results after their construction *)

\* C23: a file result is never updated after analyze_file built it: the returned
\* analysis holds the results as the loop collected them, every result the tool
\* layer leaves in the analysis is one of them unchanged, and the file results of
\* that analysis still agree with its analyzed_files and with the issue total of
\* its summary.
C23_FileResultsAreNeverUpdated ==
    /\ analysis.returned => analysis.file_results = file_results
    /\ review.asked =>
          LET now_held == review.analysis_result
          IN  /\ \A k \in 1..Len(now_held.file_results) :
                    \E j \in 1..Len(analysis.file_results) :
                       now_held.file_results[k] = analysis.file_results[j]
              /\ Len(now_held.file_results) = now_held.analyzed_files
              /\ SumSeq([k \in 1..Len(now_held.file_results) |->
                           Len(now_held.file_results[k].issues)])
                    = now_held.summary.total_issues

----------------------------------------------------------------------------
(* Language classification *)

LanguageNames == {SupportedLanguages[k].language : k \in 1..Len(SupportedLanguages)}

\* the extensions registered under a language
ExtensionsOf(language) ==
    UNION {SupportedLanguages[k].extensions :
              k \in {j \in 1..Len(SupportedLanguages) :
                        SupportedLanguages[j].language = language}}

\* C24: every file of the directory is classified as one registered language that
\* lists its extension, or as no language; files of one extension get one language
\* (so do the file results built for them); and the filter of analyze_repository
\* keeps a discovered file exactly when it is not binary and has a language.
C24_LanguageClassification ==
    /\ \A ext \in {repo[i].ext : i \in 1..Len(repo)} :
          LET classified == {DetectLanguage(repo[i]) :
                                i \in {j \in 1..Len(repo) : repo[j].ext = ext}}
          IN  /\ Cardinality(classified) = 1
              /\ \A language \in classified :
                    /\ language \in LanguageNames \cup {NoLanguage}
                    /\ language # NoLanguage => ext \in ExtensionsOf(language)
                    /\ language = NoLanguage => ext \notin RegisteredExtensions
              /\ Cardinality({r.language : r \in {q \in FileResults :
                                                    repo[q.file_path].ext = ext}}) <= 1
    /\ \A r \in FileResults : r.language \in LanguageNames
    /\ pc \notin {"start", "filter"} =>
          LET kept == {analyzable_files[n] : n \in 1..Len(analyzable_files)}
          IN  \A k \in 1..Len(all_files) :
                 LET f == repo[all_files[k]]
                 IN  all_files[k] \in kept
                        <=> (~IsBinaryFile(f) /\ DetectLanguage(f) # NoLanguage)

\* a header file, whose extension two languages list, has been analysed
C24_Witness ==
    /\ pc = "done"
    /\ \E r \in FileResults :
          /\ repo[r.file_path].ext = ".h"
          /\ Cardinality({k \in 1..Len(SupportedLanguages) :
                             ".h" \in SupportedLanguages[k].extensions}) = 2
    /\ \E i \in 1..Len(all_files) : DetectLanguage(repo[all_files[i]]) = NoLanguage

----------------------------------------------------------------------------
(* Files above the maximum size *)

\* the places among the first n analyzable files that hold a file above the maximum
OversizedAmong(n) ==
    {k \in 1..n : repo[analyzable_files[k]].size > MAX_FILE_SIZE}

\* the paths for which the loop holds a file result
PathsWithResult == {file_results[k].file_path : k \in 1..Len(file_results)}

\* C25: a file above the maximum size has no file result and raises nothing, it is
\* counted in total_files, it takes no place among the 100 results (the loop ends
\* only when the files are exhausted or 100 results are held), and a file of
\* exactly the maximum size is analysed whenever it would be as a smaller file.
C25_OversizedFilesAreSkipped ==
    /\ pc # "failed"
    /\ \A k \in OversizedAmong(idx) : analyzable_files[k] \notin PathsWithResult
    /\ Len(file_results) + Cardinality(OversizedAmong(idx)) <= idx
    /\ \A k \in 1..idx :
          LET f == repo[analyzable_files[k]]
          IN  f.size = MAX_FILE_SIZE
                 /\ AnalyzeFile([f EXCEPT !.size = 0], analyzable_files[k],
                                analyzers, 0).kind = "result"
              => analyzable_files[k] \in PathsWithResult
    /\ analysis.returned =>
          /\ idx = Len(analyzable_files) \/ Len(file_results) = FileLimit
          /\ analysis.total_files = Len(all_files)
          /\ \A k \in OversizedAmong(Len(analyzable_files)) :
                \E n \in 1..Len(all_files) : all_files[n] = analyzable_files[k]
          /\ analysis.total_files
                >= analysis.analyzed_files
                      + Cardinality(OversizedAmong(Len(analyzable_files)))
          /\ \A k \in 1..Len(analysis.file_results) :
                repo[analysis.file_results[k].file_path].size <= MAX_FILE_SIZE

\* an oversized file in place 100 of a larger directory, and 100 results all the same
C25_Witness ==
    /\ analysis.returned
    /\ FileLimit \in OversizedAmong(idx)
    /\ analysis.analyzed_files = FileLimit

----------------------------------------------------------------------------
(* Cyclomatic complexity of Python sources *)

\* the number of function definitions around node d, found along its parents
RECURSIVE EnclosingFunctions(_, _)
EnclosingFunctions(nodes, d) ==
    IF nodes[d].parent = 0 THEN 0
    ELSE LET p == nodes[d].parent
         IN  (IF IsFunctionNode(nodes[p]) THEN 1 ELSE 0) + EnclosingFunctions(nodes, p)

\* the file results of Python files that ast.parse accepts
ParsedPythonResults ==
    {r \in FileResults : r.language = "python" /\ repo[r.file_path].ast.ok}

\* C26 as stated: the complexity of a parseable Python file is the number of units
\* of its decision constructs that lie inside a function, each construct counted
\* once whatever the nesting of functions around it.
C26_EachDecisionCountsOnce ==
    \A r \in ParsedPythonResults :
       LET nodes == repo[r.file_path].ast.nodes
       IN  r.metrics.cyclomatic_complexity =
              SumSeq([d \in 1..Len(nodes) |->
                         IF EnclosingFunctions(nodes, d) > 0
                         THEN DecisionUnits(nodes[d]) ELSE 0])

\* C26 amended: the complexity of a parseable Python file is one unit for every
\* function definition plus, for every decision construct, its units once for each
\* function definition around it; constructs outside all functions add nothing.
C26_DecisionsCountPerEnclosingFunction ==
    \A r \in ParsedPythonResults :
       LET nodes == repo[r.file_path].ast.nodes
       IN  r.metrics.cyclomatic_complexity =
              r.metrics.functions
              + SumSeq([d \in 1..Len(nodes) |->
                           DecisionUnits(nodes[d]) * EnclosingFunctions(nodes, d)])

\* a file result for a source with a decision inside a function inside a function,
\* and one for a source whose decisions are all outside functions
C26_Witness ==
    /\ \E r \in ParsedPythonResults :
          LET nodes == repo[r.file_path].ast.nodes
          IN  \E d \in 1..Len(nodes) :
                 DecisionUnits(nodes[d]) > 0 /\ EnclosingFunctions(nodes, d) = 2
    /\ \E r \in ParsedPythonResults :
          LET nodes == repo[r.file_path].ast.nodes
          IN  /\ r.metrics.cyclomatic_complexity = 0
              /\ \E d \in 1..Len(nodes) : DecisionUnits(nodes[d]) > 0

----------------------------------------------------------------------------
(* The language histogram of a returned analysis *)

\* C27: in a returned analysis the counts of the language histogram sum to
\* analyzed_files, analyzed_files is the number of file results, no file path has
\* two file results, no language has two entries, and the count of every entry is
\* the number of file results of that language, which is at least one.
C27_HistogramAgreesWithResults ==
    analysis.returned =>
       LET results == analysis.file_results
           histogram == analysis.languages
       IN  /\ SumSeq([k \in 1..Len(histogram) |-> histogram[k].count])
                 = analysis.analyzed_files
           /\ analysis.analyzed_files = Len(results)
           /\ Cardinality({results[k].file_path : k \in 1..Len(results)}) = Len(results)
           /\ Cardinality({histogram[k].language : k \in 1..Len(histogram)})
                 = Len(histogram)
           /\ \A k \in 1..Len(histogram) :
                 /\ histogram[k].count >= 1
                 /\ histogram[k].count =
                       Cardinality({j \in 1..Len(results) :
                                       results[j].language = histogram[k].language})

\* two languages in the histogram, one of them with several files
C27_Witness ==
    /\ analysis.returned
    /\ Len(analysis.languages) >= 2
    /\ \E k \in 1..Len(analysis.languages) : analysis.languages[k].count >= 2
    /\ analysis.analyzed_files < analysis.total_files

----------------------------------------------------------------------------
(* Discovery and the place of the directory *)

\* the places in the directory of the files discovered when the same directory is
\* analysed at the root path with no excluded name above it
DiscoveredAtPlainRoot == DiscoverFiles(repo, RootParts)

\* C28: the files discovered in a directory, and total_files, are those discovered
\* in a directory of the same content at another root path: the names of the
\* directories above the root play no part.
C28_DiscoveryIgnoresRootPath ==
    /\ pc # "start" /\ repo_path # "missing" => all_files = DiscoveredAtPlainRoot
    /\ analysis.returned /\ repo_path # "missing" =>
          analysis.total_files = Len(DiscoveredAtPlainRoot)

----------------------------------------------------------------------------
(* Reach of the suggestion rules *)

\* the files analyze_file may be called on: those of the catalogue, the files of
\* the directory at hand among them
KnownFiles == {File(kind) : kind \in Kinds} \cup {repo[i] : i \in 1..Len(repo)}

\* the results analyze_file gives for these files under some set of registered tools
CatalogueResults ==
    {o.value : o \in {p \in {AnalyzeFile(f, 1, tools, 0) :
                                f \in KnownFiles, tools \in SUBSET ToolKeys} :
                         p.kind = "result"}}

Suggests(r, suggestion) == \E k \in 1..Len(r.suggestions) : r.suggestions[k] = suggestion

\* C29: each of the four suggestion rules is reached through analyze_file: some
\* file gets the secrets suggestion, some file the refactoring suggestion, some
\* Python file the logging suggestion and some JavaScript or TypeScript file the
\* declaration suggestion.
C29_EverySuggestionRuleIsReached ==
    /\ \E r \in CatalogueResults : Suggests(r, Suggestion("security", "high", "best_practices"))
    /\ \E r \in CatalogueResults :
          Suggests(r, Suggestion("refactoring", "medium", "maintainability"))
    /\ \E r \in CatalogueResults :
          /\ r.language = "python"
          /\ Suggests(r, Suggestion("quality", "low", "best_practices"))
    /\ \E r \in CatalogueResults :
          /\ r.language \in {"javascript", "typescript"}
          /\ Suggests(r, Suggestion("modernization", "medium", "modern_syntax"))

----------------------------------------------------------------------------
(* The file limit and the rule for large repositories *)

\* C30: analyze_repository never holds more than 100 file results, so a returned
\* analysis has analyzed_files <= 100, and _generate_repository_suggestions called
\* on it, with any focus area, gives no suggestion of type maintainability.
C30_HundredResultsAtMost ==
    /\ Len(file_results) <= 100
    /\ analysis.returned =>
          /\ analysis.analyzed_files <= 100
          /\ \A focus_area \in FocusAreas :
                LET suggestions == GenerateRepositorySuggestions(analysis, focus_area)
                IN  \A k \in 1..Len(suggestions) : suggestions[k].type # "maintainability"

\* more than 200 analyzable files, all of which would give a result
C30_Witness ==
    /\ analysis.returned
    /\ Len(analyzable_files) > 200
    /\ analysis.analyzed_files = 100
    /\ \A n \in 1..Len(analyzable_files) :
          repo[analyzable_files[n]].vanish = "never"
             /\ repo[analyzable_files[n]].size <= MAX_FILE_SIZE

====
